---- MODULE Spec2Model ----
(***************************************************************************)
(* Timeclock: the session state machine (domain.AppState), the interval    *)
(* store with its close-and-slice protocol (storage), and restoration.     *)
(*                                                                         *)
(* Instants are integers counting ticks of 1/Resolution second since the   *)
(* Unix epoch (Go's time.Time has nanosecond resolution; the model keeps a *)
(* coarser sub-second grid).  The database is three sequences of rows; a   *)
(* row's id is its position (INTEGER PRIMARY KEY AUTOINCREMENT, and no row *)
(* is ever deleted).  A session id is a positive integer drawn from a      *)
(* generator that never repeats (uuid.NewString); 0 is the empty string.   *)
(***************************************************************************)
EXTENDS Integers, Sequences, FiniteSets, TLC

(* ------------------------------ bounds --------------------------------- *)

\* ticks per second: the sub-second grid of the modelled clock
Resolution == 2
\* rows the events table may hold before the model stops appending
MaxEvents == 4
\* storage failures injected in one behaviour
MaxFaults == 1

(* ------------------------- program constants --------------------------- *)

\* seconds of a calendar day without a zone transition (package time)
SecondsPerDay == 86400
\* SQL NULL in intervals.end_utc / intervals.duration_seconds
NULL == -1
\* time.Time{} (IsZero): an instant before every instant of the clock
ZeroTime == -1
\* the empty string as a session id
NoSession == 0

States == {"Stopped", "InProgress", "Paused"}

ErrInvalidTransition == "invalid transition for current state"
ErrCategoryRequired == "category is required"
ErrFindOpenInterval == "find open interval: sql: no rows in result set"
\* declared in package domain; no statement of the source returns it
ErrNoOpenInterval == "no open interval to close"
ErrStorage == "storage error"
\* the outcome of a call that never returns
NoReturn == "no return"
Nil == "nil"

(* -------------------------- the environment ---------------------------- *)

\* A time zone: offset `before` (seconds east of UTC) until the UTC second
\* `at`, offset `after` from then on.  A fixed zone has before = after.
UTC == [before |-> 0, after |-> 0, at |-> 0]
CET == [before |-> 3600, after |-> 3600, at |-> 0]
\* time.Local of the runs of the state machine
Zones == {CET}

\* 23:00:00 UTC of day 0, the instant local day 1 begins in CET
Midnight1 == (SecondsPerDay - CET.before) * Resolution
\* The readings time.Now() can give: a second and a fraction before that
\* local midnight, and a second and a fraction after it.  Two calls may get
\* the same reading; the wall clock is not set back during a run.
Instants ==
    { Midnight1 - Resolution - 1,
      Midnight1 + Resolution + 1 }

\* Zones with one change of offset on day 1, for the runs that exercise the
\* slicing: the clock goes from 02:00 to 03:00 (spring forward) or from
\* 02:00 back to 01:00 (fall back) eight or seven hours west of UTC, and,
\* five or four hours west, from 00:00 to 01:00 or from 01:00 back to 00:00
\* (zones that change at midnight, as America/Havana does).
PacificSpring == [before |-> -28800, after |-> -25200, at |-> 86400 + 36000]
PacificFall == [before |-> -25200, after |-> -28800, at |-> 86400 + 32400]
HavanaSpring == [before |-> -18000, after |-> -14400, at |-> 86400 + 18000]
HavanaFall == [before |-> -14400, after |-> -18000, at |-> 86400 + 18000]
SliceZones == {CET, PacificSpring, PacificFall, HavanaSpring, HavanaFall}

\* hh:mm:00 UTC of a day, in clock ticks
At(day, hh, mm) == ((day * 24 + hh) * 60 + mm) * 60 * Resolution

\* The readings of time.Now() in those runs, per zone: instants on both
\* sides of a local midnight and of the zone's change, one of them with a
\* sub-second part, and one a day later.
SliceInstants(tz) ==
    CASE tz = CET ->
           {At(0, 23, 0) - 1, At(0, 23, 30), At(1, 1, 10), At(2, 1, 10)}
      [] tz = PacificSpring ->
           {At(1, 7, 0), At(1, 9, 30), At(1, 12, 30), At(2, 8, 0)}
      [] tz = PacificFall ->
           {At(1, 6, 0), At(1, 8, 30), At(1, 9, 30), At(2, 9, 0)}
      [] tz = HavanaSpring ->
           {At(1, 2, 0), At(1, 3, 30), At(1, 4, 30), At(1, 5, 30)}
      [] tz = HavanaFall ->
           {At(1, 3, 30), At(1, 4, 30), At(1, 5, 30), At(2, 5, 30)}

\* the (description, category) pairs the caller passes to Start
StartArgs == {<<"write spec", "Task">>, <<"", "Project">>, <<"write spec", "">>}

VARIABLES
    CurrentState, SessionID, Category, Description, IntervalIndex, IntervalStart,
    events, intervals, interval_days,
    loc,        \* time.Local of the process
    nextSID,    \* the next value of the session id generator
    faults,     \* storage failures so far
    clock,      \* the last reading of time.Now()
    last,       \* the last call: its name, arguments, injected failure, result
    prev,       \* the in-memory state and the tables as they were before it
    mu,         \* AppState.mu: the goroutine that holds it, 0 when unlocked
    pc,         \* where each goroutine stands in its call of a method
    seen        \* the state and tables each goroutine found on entering

mem == <<CurrentState, SessionID, Category, Description, IntervalIndex, IntervalStart>>
db == <<events, intervals, interval_days>>
sync == <<mu, pc, seen>>
vars == <<mem, db, loc, nextSID, faults, clock, last, prev, sync>>

\* the goroutines that call into the state: the UI's and the ticker's
Threads == {1, 2}

(* ------------------------------- time ---------------------------------- *)

\* t.Unix(): whole seconds since the epoch
Unix(t) == t \div Resolution

\* time.Unix(sec, 0)
TimeUnix(sec) == sec * Resolution

\* int64(a.Sub(b).Seconds()): the conversion truncates toward zero
SubSeconds(a, b) ==
    IF a >= b THEN (a - b) \div Resolution ELSE -((b - a) \div Resolution)

\* Location.lookup: which of the zone's two periods the UTC second falls in
ZonePeriod(tz, sec) == IF sec < tz.at THEN 1 ELSE 2
ZoneOffset(tz, period) == IF period = 1 THEN tz.before ELSE tz.after

\* variant: the calendar day read in UTC, whatever the zone
LocalDayUTC(t, tz) == Unix(t) \div SecondsPerDay

\* t.In(loc).Format("2006-01-02"): the local calendar day, as a day number
LocalDay(t, tz) ==
    (Unix(t) + ZoneOffset(tz, ZonePeriod(tz, Unix(t)))) \div SecondsPerDay

\* variant: midnight taken in UTC, whatever the zone
DateUTC(day, tz) == TimeUnix(day * SecondsPerDay)

\* time.Date(y, m, d, 0, 0, 0, 0, loc) for the calendar day `day`:
\* the wall-clock reading is taken as UTC, the offset in force there is
\* subtracted, and looked up again when the result leaves that period.
Date(day, tz) ==
    LET unix == day * SecondsPerDay
        p == ZonePeriod(tz, unix)
        off1 == ZoneOffset(tz, p)
        utc == unix - off1
        off == IF off1 # 0 /\ ZonePeriod(tz, utc) # p
                 THEN ZoneOffset(tz, ZonePeriod(tz, utc)) ELSE off1
    IN TimeUnix(unix - off)

(* ------------------------------ storage -------------------------------- *)

\* variant: INSERT OR REPLACE keyed on the session, overwriting its last row
InsertEventReplacing(evs, sessionID, whenUTC, action, category, description) ==
    LET row == [session_id |-> sessionID, timestamp_utc |-> Unix(whenUTC),
                action |-> action, category |-> category,
                description |-> description]
    IN IF evs # <<>> /\ evs[Len(evs)].session_id = sessionID
         THEN [evs EXCEPT ![Len(evs)] = row]
         ELSE Append(evs, row)

\* variant: category and description bound to each other's column
InsertEventSwapped(evs, sessionID, whenUTC, action, category, description) ==
    Append(evs, [session_id |-> sessionID, timestamp_utc |-> Unix(whenUTC),
                 action |-> action, category |-> description,
                 description |-> category])

InsertEvent(evs, sessionID, whenUTC, action, category, description) ==
    Append(evs, [session_id |-> sessionID, timestamp_utc |-> Unix(whenUTC),
                 action |-> action, category |-> category,
                 description |-> description])

\* variant: start_utc stored in clock ticks instead of whole seconds
OpenIntervalUnixTicks(ivs, sessionID, intervalIndex, startUTC, category, description) ==
    Append(ivs, [session_id |-> sessionID, interval_index |-> intervalIndex,
                 start_utc |-> startUTC, end_utc |-> NULL,
                 category |-> category, description |-> description,
                 duration_seconds |-> NULL])

OpenInterval(ivs, sessionID, intervalIndex, startUTC, category, description) ==
    Append(ivs, [session_id |-> sessionID, interval_index |-> intervalIndex,
                 start_utc |-> Unix(startUTC), end_utc |-> NULL,
                 category |-> category, description |-> description,
                 duration_seconds |-> NULL])

MaxOf(S) == CHOOSE x \in S : \A y \in S : y <= x

\* variant: the session filter is missing and the order is ascending
FindOpenIntervalAnySession(ivs, sessionID) ==
    LET open == {i \in DOMAIN ivs : ivs[i].end_utc = NULL}
    IN IF open = {} THEN 0 ELSE CHOOSE x \in open : \A y \in open : x <= y

\* SELECT id FROM intervals WHERE session_id = ? AND end_utc IS NULL
\* ORDER BY id DESC LIMIT 1;  0 stands for sql.ErrNoRows
FindOpenInterval(ivs, sessionID) ==
    LET open == {i \in DOMAIN ivs :
                    ivs[i].session_id = sessionID /\ ivs[i].end_utc = NULL}
    IN IF open = {} THEN 0 ELSE MaxOf(open)

\* variant: the UPDATE matches no row
UpdateIntervalNoRow(ivs, intervalID, endSec, durationSeconds) == ivs

\* UPDATE intervals SET end_utc = ?, duration_seconds = ? WHERE id = ?
UpdateInterval(ivs, intervalID, endSec, durationSeconds) ==
    [ivs EXCEPT ![intervalID].end_utc = endSec,
                ![intervalID].duration_seconds = durationSeconds]

\* variant: a segment of less than a second is stored with duration 0
StoresSegmentAlways(segDuration) == segDuration >= 0
\* sliceIntervalIntoDays: if segDuration > 0 { INSERT INTO interval_days }
StoresSegment(segDuration) == segDuration > 0

\* The loop of sliceIntervalIntoDays: the rows its transaction inserts, and
\* whether the loop ends.  It does not end when a pass leaves both
\* curStartLocal and nextMidnight as they were (time.Date gave a "next
\* midnight" that is not after the segment's start): every later pass is the
\* same, and the transaction is never committed.
RECURSIVE SliceLoop(_, _, _, _, _, _, _, _)
SliceLoop(curStart, nextMidnight, endUTC, intervalID, sessionID, category, description, tz) ==
    IF ~(curStart < endUTC) THEN [rows |-> <<>>, ends |-> TRUE]
    ELSE
      LET segmentEnd == IF nextMidnight < endUTC THEN nextMidnight ELSE endUTC
          d == SubSeconds(segmentEnd, curStart)
          segDuration == IF d < 0 THEN 0 ELSE d
          row == [interval_id |-> intervalID, session_id |-> sessionID,
                  date_local |-> LocalDay(curStart, tz), category |-> category,
                  description |-> description, duration_seconds |-> segDuration]
          next == Date(LocalDay(segmentEnd, tz) + 1, tz)
      IN IF segmentEnd = curStart /\ next = nextMidnight
           THEN [rows |-> <<>>, ends |-> FALSE]
         ELSE LET rest == SliceLoop(segmentEnd, next, endUTC, intervalID,
                                    sessionID, category, description, tz)
              IN [rows |-> (IF StoresSegment(segDuration) THEN <<row>> ELSE <<>>)
                             \o rest.rows,
                  ends |-> rest.ends]

\* sliceIntervalIntoDays never returns for this span in this zone
sliceNeverReturns(startUTC, endUTC, tz) ==
    /\ startUTC < endUTC
    /\ ~SliceLoop(startUTC, Date(LocalDay(startUTC, tz) + 1, tz), endUTC,
                  0, 0, "", "", tz).ends

\* the rows sliceIntervalIntoDays commits (none when it never returns)
sliceIntervalIntoDays(intervalID, sessionID, startUTC, endUTC, category, description, tz) ==
    IF ~(startUTC < endUTC) \/ sliceNeverReturns(startUTC, endUTC, tz) THEN <<>>
    ELSE SliceLoop(startUTC, Date(LocalDay(startUTC, tz) + 1, tz), endUTC,
                   intervalID, sessionID, category, description, tz).rows

\* The result of CloseOpenIntervalAndSliceDays: the two tables and the error
\* (NoReturn when the slicing loop never ends: the UPDATE is committed, the
\* slices are not, and the caller gets nothing back).
\* fail names the write that fails: "update", or "slice" (the
\* transaction of sliceIntervalIntoDays: its Begin, an INSERT or its Commit;
\* the deferred Rollback then drops every row of the transaction).
CloseOpenIntervalAndSliceDays(ivs, days, sessionID, startUTC, endUTC, category, description, tz, fail) ==
    LET intervalID == FindOpenInterval(ivs, sessionID)
        d == SubSeconds(endUTC, startUTC)
        durationSeconds == IF d < 0 THEN 0 ELSE d
        closed == UpdateInterval(ivs, intervalID, Unix(endUTC), durationSeconds)
        rows == sliceIntervalIntoDays(intervalID, sessionID, startUTC, endUTC,
                                      category, description, tz)
    IN IF intervalID = 0
         THEN [intervals |-> ivs, interval_days |-> days, err |-> ErrFindOpenInterval]
       ELSE IF fail = "update"
         THEN [intervals |-> ivs, interval_days |-> days, err |-> ErrStorage]
       ELSE IF fail = "slice" /\ startUTC < endUTC
         THEN [intervals |-> closed, interval_days |-> days, err |-> ErrStorage]
       ELSE IF sliceNeverReturns(startUTC, endUTC, tz)
         THEN [intervals |-> closed, interval_days |-> days, err |-> NoReturn]
       ELSE [intervals |-> closed, interval_days |-> days \o rows, err |-> Nil]

(* --------------------------- the state machine ------------------------- *)

Snapshot ==
    [CurrentState |-> CurrentState, SessionID |-> SessionID, Category |-> Category,
     Description |-> Description, IntervalIndex |-> IntervalIndex,
     IntervalStart |-> IntervalStart, nextSID |-> nextSID,
     events |-> events, intervals |-> intervals, interval_days |-> interval_days]

\* what every call leaves behind for the properties: its name, arguments,
\* injected failure and returned error, whether it is the second of two
\* successful RestoreState calls in a row, and the state it started from.
\* nowUTC is the call's reading of time.Now() (ZeroTime when it takes none).
\* elapsed is the duration an Elapsed call returned, in clock ticks.
\* report is a reporting query's date range and the rows it returned.
NoReport == [fromDate |-> 0, toDate |-> 0, rows |-> <<>>]

ReturnAll(op, description, category, nowUTC, fail, err, elapsed, report) ==
    /\ clock' = IF nowUTC = ZeroTime THEN clock ELSE nowUTC
    /\ last' = [op |-> op, description |-> description, category |-> category,
                now |-> nowUTC, fail |-> fail, err |-> err,
                again |-> (op = "Restore" /\ err = Nil
                           /\ last.op = "Restore" /\ last.err = Nil),
                elapsed |-> elapsed, report |-> report]
    /\ prev' = Snapshot
    /\ fail # "none" => err = ErrStorage
    /\ faults' = IF fail # "none" THEN faults + 1 ELSE faults

ReturnWith(op, description, category, nowUTC, fail, err, elapsed) ==
    ReturnAll(op, description, category, nowUTC, fail, err, elapsed, NoReport)

Return(op, description, category, nowUTC, fail, err) ==
    ReturnWith(op, description, category, nowUTC, fail, err, 0)

\* a call may meet a storage failure while the run's budget of them lasts
MayFail(fail) == fail # "none" => faults < MaxFaults

\* NewAppState
InitIn(zones) ==
    /\ CurrentState = "Stopped"
    /\ SessionID = NoSession
    /\ Category = ""
    /\ Description = ""
    /\ IntervalIndex = 0
    /\ IntervalStart = ZeroTime
    /\ events = <<>>
    /\ intervals = <<>>
    /\ interval_days = <<>>
    /\ loc \in zones
    /\ nextSID = 1
    /\ faults = 0
    /\ clock = 0
    /\ last = [op |-> "NewAppState", description |-> "", category |-> "",
               now |-> ZeroTime, fail |-> "none", err |-> Nil, again |-> FALSE,
               elapsed |-> 0, report |-> NoReport]
    /\ prev = Snapshot
    /\ mu = 0
    /\ pc = [t \in Threads |-> "idle"]
    /\ seen = [t \in Threads |-> <<>>]

\* the state NewAppState builds on an empty database, in the zone of the runs
Init == InitIn(Zones)

\* variant: resume without the increment
NextIntervalIndexStuck(intervalIndex) == intervalIndex
\* s.IntervalIndex++ on resume
NextIntervalIndex(intervalIndex) == intervalIndex + 1

\* variant: Pause accepted while Paused
PauseLegalWhenNotStopped(state) == state # "Stopped"
\* the guard of PauseWork: legal only from InProgress
PauseLegal(state) == state = "InProgress"

\* variant: Stop rejected while Paused
StopLegalWhenInProgress(state) == state = "InProgress"
\* the guard of StopWork: legal from InProgress and Paused
StopLegal(state) == state # "Stopped"

\* variant: the category is not validated
CategoryMissingNever(category) == FALSE
\* StartWork from Stopped: if category == ""
CategoryMissing(category) == category = ""

\* variant: StopWork closes an interval whenever it is legal
StopClosesAlways(state) == state # "Stopped"
\* StopWork: if s.CurrentState == InProgress, close the interval
StopCloses(state) == state = "InProgress"

\* variant: the reset forgets IntervalIndex
StopResetKeepsIndex ==
    [SessionID |-> NoSession, IntervalIndex |-> IntervalIndex,
     IntervalStart |-> ZeroTime]
\* StopWork: reset session data (Category and Description are left as they
\* are: "we leave last values visible")
StopReset ==
    [SessionID |-> NoSession, IntervalIndex |-> 0, IntervalStart |-> ZeroTime]

\* variant: a resume is logged as a START
ResumeActionStart == "START"

\* the action StartWork logs from Paused
ResumeAction == "RESUME"

StartWork(description, category, nowUTC, fail) ==
    CASE CurrentState = "Stopped" /\ CategoryMissing(category) ->
           /\ UNCHANGED <<mem, db, loc, nextSID>>
           /\ Return("Start", description, category, nowUTC, fail, ErrCategoryRequired)
      [] CurrentState = "Stopped" /\ ~CategoryMissing(category) ->
           /\ SessionID' = nextSID
           /\ nextSID' = nextSID + 1
           /\ IntervalIndex' = 0
           /\ Description' = description
           /\ Category' = category
           /\ IntervalStart' = nowUTC
           /\ CurrentState' = "InProgress"
           /\ events' = IF fail = "event" THEN events
                        ELSE InsertEvent(events, SessionID', nowUTC, "START",
                                         Category', Description')
           /\ intervals' = IF fail \in {"event", "open"} THEN intervals
                           ELSE OpenInterval(intervals, SessionID', IntervalIndex',
                                             IntervalStart', Category', Description')
           /\ UNCHANGED <<interval_days, loc>>
           /\ Return("Start", description, category, nowUTC, fail,
                     IF fail \in {"event", "open"} THEN ErrStorage ELSE Nil)
      [] CurrentState = "Paused" ->
           /\ IntervalIndex' = NextIntervalIndex(IntervalIndex)
           /\ IntervalStart' = nowUTC
           /\ CurrentState' = "InProgress"
           /\ events' = IF fail = "event" THEN events
                        ELSE InsertEvent(events, SessionID, nowUTC, ResumeAction,
                                         Category, Description)
           /\ intervals' = IF fail \in {"event", "open"} THEN intervals
                           ELSE OpenInterval(intervals, SessionID, IntervalIndex',
                                             IntervalStart', Category, Description)
           /\ UNCHANGED <<SessionID, Category, Description, interval_days, loc, nextSID>>
           /\ Return("Start", description, category, nowUTC, fail,
                     IF fail \in {"event", "open"} THEN ErrStorage ELSE Nil)
      [] CurrentState = "InProgress" ->
           /\ UNCHANGED <<mem, db, loc, nextSID>>
           /\ Return("Start", description, category, nowUTC, fail, ErrInvalidTransition)

PauseWork(nowUTC, fail) ==
    IF ~PauseLegal(CurrentState)
      THEN /\ UNCHANGED <<mem, db, loc, nextSID>>
           /\ Return("Pause", "", "", ZeroTime, fail, ErrInvalidTransition)
      ELSE
        LET c == CloseOpenIntervalAndSliceDays(intervals, interval_days, SessionID,
                    IntervalStart, nowUTC, Category, Description, loc, fail)
            evFails == c.err = Nil /\ fail = "event"
            err == IF evFails THEN ErrStorage ELSE c.err
        IN /\ intervals' = c.intervals
           /\ interval_days' = c.interval_days
           /\ events' = IF c.err = Nil /\ ~evFails
                          THEN InsertEvent(events, SessionID, nowUTC, "PAUSE",
                                           Category, Description)
                          ELSE events
           /\ CurrentState' = IF err = Nil THEN "Paused" ELSE CurrentState
           /\ UNCHANGED <<SessionID, Category, Description, IntervalIndex,
                          IntervalStart, loc, nextSID>>
           /\ Return("Pause", "", "", nowUTC, fail, err)

StopWork(nowUTC, fail) ==
    IF ~StopLegal(CurrentState)
      THEN /\ UNCHANGED <<mem, db, loc, nextSID>>
           /\ Return("Stop", "", "", ZeroTime, fail, ErrInvalidTransition)
      ELSE
        LET c == IF StopCloses(CurrentState)
                   THEN CloseOpenIntervalAndSliceDays(intervals, interval_days,
                            SessionID, IntervalStart, nowUTC, Category, Description,
                            loc, fail)
                   ELSE [intervals |-> intervals, interval_days |-> interval_days,
                         err |-> Nil]
            evFails == c.err = Nil /\ fail = "event"
            err == IF evFails THEN ErrStorage ELSE c.err
        IN /\ intervals' = c.intervals
           /\ interval_days' = c.interval_days
           /\ events' = IF c.err = Nil /\ ~evFails
                          THEN InsertEvent(events, SessionID, nowUTC, "STOP",
                                           Category, Description)
                          ELSE events
           /\ CurrentState' = IF err = Nil THEN "Stopped" ELSE CurrentState
           /\ SessionID' = IF err = Nil THEN StopReset.SessionID ELSE SessionID
           /\ IntervalIndex' = IF err = Nil THEN StopReset.IntervalIndex
                                ELSE IntervalIndex
           /\ IntervalStart' = IF err = Nil THEN StopReset.IntervalStart
                                ELSE IntervalStart
           /\ UNCHANGED <<Category, Description, loc, nextSID>>
           /\ Return("Stop", "", "", nowUTC, fail, err)

\* variant: the oldest open interval is read (ORDER BY id ASC)
FirstOpenInterval(ivs) ==
    LET open == {i \in DOMAIN ivs : ivs[i].end_utc = NULL}
    IN IF open = {} THEN 0 ELSE CHOOSE i \in open : \A j \in open : i <= j

\* SELECT ... FROM intervals WHERE end_utc IS NULL ORDER BY id DESC LIMIT 1
LastOpenInterval(ivs) ==
    LET open == {i \in DOMAIN ivs : ivs[i].end_utc = NULL}
    IN IF open = {} THEN 0 ELSE MaxOf(open)

\* variant: the oldest event is read (ORDER BY id ASC)
FirstEvent(evs) == evs[1]
\* RestoreState's second query: SELECT ... FROM events ORDER BY id DESC LIMIT 1
LastEvent(evs) == evs[Len(evs)]

\* variant: the index is advanced when the Paused state is restored
RestoredPausedIndexAdvanced(intervalIndex) == intervalIndex + 1
\* RestoreState, last action PAUSE: IntervalIndex is not assigned ("will be
\* incremented when user hits Resume")
RestoredPausedIndex(intervalIndex) == intervalIndex

\* variant: a last action PAUSE does not restore the session
RestoresAsPausedNever(lastAction) == FALSE

\* if lastAction == "PAUSE"
RestoresAsPaused(lastAction) == lastAction = "PAUSE"

\* what RestoreState reads and decides on a state object whose fields are
\* `keep`: the fields it leaves in memory and the error it returns. A failing
\* query returns before any assignment.
RestoredFrom(keep, fail) ==
    LET id == LastOpenInterval(intervals)
    IN
    CASE fail = "intervals" -> [mem |-> keep, err |-> ErrStorage]
      [] fail = "events" /\ id = 0 -> [mem |-> keep, err |-> ErrStorage]
      [] fail = "none" /\ id = 0 /\ events = <<>> -> [mem |-> keep, err |-> Nil]
      [] fail = "none" /\ id = 0 /\ events # <<>> ->
           IF RestoresAsPaused(LastEvent(events).action)
           THEN [mem |-> [CurrentState |-> "Paused",
                          SessionID |-> LastEvent(events).session_id,
                          Category |-> LastEvent(events).category,
                          Description |-> LastEvent(events).description,
                          IntervalIndex |-> RestoredPausedIndex(keep.IntervalIndex),
                          IntervalStart |-> keep.IntervalStart],
                 err |-> Nil]
           ELSE [mem |-> keep, err |-> Nil]
      [] fail = "none" /\ id # 0 ->
           [mem |-> [CurrentState |-> "InProgress",
                     SessionID |-> intervals[id].session_id,
                     Category |-> intervals[id].category,
                     Description |-> intervals[id].description,
                     IntervalIndex |-> intervals[id].interval_index,
                     IntervalStart |-> TimeUnix(intervals[id].start_utc)],
            err |-> Nil]

\* RestoreState on the state object of the running process
Restored(fail) ==
    RestoredFrom([CurrentState |-> CurrentState, SessionID |-> SessionID,
                  Category |-> Category, Description |-> Description,
                  IntervalIndex |-> IntervalIndex,
                  IntervalStart |-> IntervalStart], fail)

\* variant: a restored session is logged in the events table
RestoreStateLogged(fail) ==
    /\ fail = "none" \/ (fail = "events" /\ LastOpenInterval(intervals) = 0)
          \/ fail = "intervals"
    /\ LET r == Restored(fail)
       IN /\ CurrentState' = r.mem.CurrentState
          /\ SessionID' = r.mem.SessionID
          /\ Category' = r.mem.Category
          /\ Description' = r.mem.Description
          /\ IntervalIndex' = r.mem.IntervalIndex
          /\ IntervalStart' = r.mem.IntervalStart
          /\ events' = IF r.err = Nil /\ r.mem.CurrentState # "Stopped"
                          /\ Len(events) < MaxEvents
                       THEN InsertEvent(events, r.mem.SessionID, clock,
                                        "RESUME", r.mem.Category,
                                        r.mem.Description)
                       ELSE events
          /\ UNCHANGED <<intervals, interval_days, loc, nextSID>>
          /\ Return("Restore", "", "", ZeroTime, fail, r.err)

\* RestoreState: two SELECTs and assignments to the state's fields; no
\* statement of it writes to the database. The events query runs only when
\* the intervals query found no row.
RestoreState(fail) ==
    /\ fail = "none" \/ (fail = "events" /\ LastOpenInterval(intervals) = 0)
          \/ fail = "intervals"
    /\ LET r == Restored(fail)
       IN /\ CurrentState' = r.mem.CurrentState
          /\ SessionID' = r.mem.SessionID
          /\ Category' = r.mem.Category
          /\ Description' = r.mem.Description
          /\ IntervalIndex' = r.mem.IntervalIndex
          /\ IntervalStart' = r.mem.IntervalStart
          /\ UNCHANGED <<db, loc, nextSID>>
          /\ Return("Restore", "", "", ZeroTime, fail, r.err)

\* variant: the elapsed time keeps counting while the session is paused
ElapsedWhenNotStopped(state, intervalStart, nowUTC) ==
    IF state = "Stopped" \/ intervalStart = ZeroTime THEN 0
    ELSE nowUTC - intervalStart
\* what Elapsed returns: 0 unless InProgress with a set IntervalStart, else
\* time.Since(s.IntervalStart).  IntervalStart carries no monotonic reading
\* (time.Now().UTC() and time.Unix strip it), so this is a difference of
\* wall-clock readings.
ElapsedSince(state, intervalStart, nowUTC) ==
    IF state # "InProgress" \/ intervalStart = ZeroTime THEN 0
    ELSE nowUTC - intervalStart

\* Elapsed: a read under the lock; nowUTC is the reading time.Since takes
Elapsed(nowUTC) ==
    /\ UNCHANGED <<mem, db, loc, nextSID>>
    /\ ReturnWith("Elapsed", "", "", nowUTC, "none", Nil,
                  ElapsedSince(CurrentState, IntervalStart, nowUTC))

\* The process ends and a new one starts on the same database file:
\* main builds a fresh state with NewAppState.
Restart ==
    /\ CurrentState' = "Stopped"
    /\ SessionID' = NoSession
    /\ Category' = ""
    /\ Description' = ""
    /\ IntervalIndex' = 0
    /\ IntervalStart' = ZeroTime
    /\ UNCHANGED <<db, loc, nextSID>>
    /\ Return("NewAppState", "", "", ZeroTime, "none", Nil)

\* the model stops a run before a call that could append an event to a full
\* events table or that draws a session id beyond the run's supply
WithinBounds(maxEvents) ==
    /\ Len(events) < maxEvents
    /\ CurrentState = "Stopped" => nextSID <= maxEvents \div 2

Next ==
    \/ \E f \in {"none", "event", "open"}, t \in Instants, a \in StartArgs :
          /\ MayFail(f) /\ t >= clock
          /\ (CurrentState = "InProgress" \/ CategoryMissing(a[2])
                \/ WithinBounds(MaxEvents))
          /\ StartWork(a[1], a[2], t, f)
          /\ UNCHANGED sync
    \/ \E f \in {"none", "update", "slice", "event"}, t \in Instants :
          /\ MayFail(f) /\ t >= clock
          /\ (~PauseLegal(CurrentState) \/ WithinBounds(MaxEvents))
          /\ PauseWork(t, f)
          /\ UNCHANGED sync
    \/ \E f \in {"none", "update", "slice", "event"}, t \in Instants :
          /\ MayFail(f) /\ t >= clock
          /\ (~StopLegal(CurrentState) \/ WithinBounds(MaxEvents))
          /\ StopWork(t, f)
          /\ UNCHANGED sync
    \/ \E f \in {"none", "intervals", "events"} :
          MayFail(f) /\ RestoreState(f) /\ UNCHANGED sync
    \/ Restart /\ UNCHANGED sync

Spec == Init /\ [][Next]_vars

\* Runs on a storage that never fails, one event longer than those of Spec:
\* long enough for a session with two intervals to be paused, restored in
\* a new process and resumed.
MaxEventsWorkingStorage == MaxEvents + 1

NextWorkingStorage ==
    \/ \E t \in Instants, a \in StartArgs :
          /\ t >= clock
          /\ (CurrentState = "InProgress" \/ CategoryMissing(a[2])
                \/ WithinBounds(MaxEventsWorkingStorage))
          /\ StartWork(a[1], a[2], t, "none")
          /\ UNCHANGED sync
    \/ \E t \in Instants :
          /\ t >= clock
          /\ (~PauseLegal(CurrentState) \/ WithinBounds(MaxEventsWorkingStorage))
          /\ PauseWork(t, "none")
          /\ UNCHANGED sync
    \/ \E t \in Instants :
          /\ t >= clock
          /\ (~StopLegal(CurrentState) \/ WithinBounds(MaxEventsWorkingStorage))
          /\ StopWork(t, "none")
          /\ UNCHANGED sync
    \/ RestoreState("none") /\ UNCHANGED sync
    \/ Restart /\ UNCHANGED sync
    \/ \E t \in Instants : t >= clock /\ Elapsed(t) /\ UNCHANGED sync

SpecWorkingStorage == Init /\ [][NextWorkingStorage]_vars

\* Runs that exercise the slicing: a process in one of SliceZones, on a
\* storage that never fails, with a wall clock that may be set back between
\* two calls.  Only calls that are legal in the current state are made.  A
\* call that never returns leaves the process hung.
NextSlicing ==
    \/ \E t \in SliceInstants(loc), a \in StartArgs :
          /\ last.err # NoReturn
          /\ CurrentState # "InProgress" /\ ~CategoryMissing(a[2])
          /\ WithinBounds(MaxEvents)
          /\ StartWork(a[1], a[2], t, "none")
          /\ UNCHANGED sync
    \/ \E t \in SliceInstants(loc) :
          /\ last.err # NoReturn
          /\ PauseLegal(CurrentState) /\ WithinBounds(MaxEvents)
          /\ PauseWork(t, "none")
          /\ UNCHANGED sync
    \/ \E t \in SliceInstants(loc) :
          /\ last.err # NoReturn
          /\ StopLegal(CurrentState) /\ WithinBounds(MaxEvents)
          /\ StopWork(t, "none")
          /\ UNCHANGED sync
    \/ last.err # NoReturn /\ RestoreState("none") /\ UNCHANGED sync

SpecSlicing == InitIn(SliceZones) /\ [][NextSlicing]_vars

\* Runs on the day boundaries: in each zone the instants are the beginnings
\* of two local days (local midnight, or the change of offset that skips it)
\* and an hour before or after them; among them a local day of 23 hours and
\* one of 25.
MidnightZones == {CET, PacificSpring, HavanaSpring, HavanaFall}

MidnightInstants(tz) ==
    IF tz = CET
      THEN {At(0, 22, 0), At(0, 23, 0), At(1, 0, 0), At(1, 23, 0)}
    ELSE IF tz = PacificSpring
      THEN {At(1, 7, 0), At(1, 8, 0), At(2, 7, 0), At(2, 8, 0)}
    ELSE IF tz = HavanaSpring
      THEN {At(1, 3, 0), At(1, 4, 0), At(1, 5, 0), At(2, 4, 0)}
    ELSE {At(1, 3, 0), At(1, 4, 0), At(2, 5, 0), At(2, 6, 0)}

NextMidnight ==
    \/ \E t \in MidnightInstants(loc), a \in StartArgs :
          /\ last.err # NoReturn /\ t >= clock
          /\ CurrentState # "InProgress" /\ ~CategoryMissing(a[2])
          /\ WithinBounds(MaxEvents)
          /\ StartWork(a[1], a[2], t, "none")
          /\ UNCHANGED sync
    \/ \E t \in MidnightInstants(loc) :
          /\ last.err # NoReturn /\ t >= clock
          /\ PauseLegal(CurrentState) /\ WithinBounds(MaxEvents)
          /\ PauseWork(t, "none")
          /\ UNCHANGED sync
    \/ \E t \in MidnightInstants(loc) :
          /\ last.err # NoReturn /\ t >= clock
          /\ StopLegal(CurrentState) /\ WithinBounds(MaxEvents)
          /\ StopWork(t, "none")
          /\ UNCHANGED sync
    \/ last.err # NoReturn /\ RestoreState("none") /\ UNCHANGED sync

SpecMidnight == InitIn(MidnightZones) /\ [][NextMidnight]_vars

(* ------------------------------ reporting ------------------------------ *)

\* WHERE date_local >= ? AND date_local <= ?  (dates are zero-padded ISO
\* strings, so the string comparison is the comparison of the days)
InRangeBelow(date_local, fromDate, toDate) ==
    date_local >= fromDate /\ date_local < toDate

InRange(date_local, fromDate, toDate) ==
    date_local >= fromDate /\ date_local <= toDate

\* SUM(duration_seconds)
RECURSIVE SumDurationSeconds(_)
SumDurationSeconds(rows) ==
    IF rows = <<>> THEN 0
    ELSE Head(rows).duration_seconds + SumDurationSeconds(Tail(rows))

\* GROUP BY category with SUM(duration_seconds): one row per category present
CategoryTotals(days, fromDate, toDate) ==
    LET selected == SelectSeq(days, LAMBDA r :
                        InRange(r.date_local, fromDate, toDate))
        present == {selected[k].category : k \in DOMAIN selected}
    IN {[Category |-> c,
         TotalSeconds |-> SumDurationSeconds(SelectSeq(selected,
                              LAMBDA r : r.category = c))] : c \in present}

\* ORDER BY total_seconds DESC: every listing of the groups in which no row
\* precedes one of a larger total (rows of equal totals come in either order)
OrderedByTotalDesc(groups) ==
    {res \in [1..Cardinality(groups) -> groups] :
        /\ \A j, k \in DOMAIN res : j # k => res[j] # res[k]
        /\ \A j, k \in DOMAIN res :
              j < k => res[j].TotalSeconds >= res[k].TotalSeconds}

\* reporting.TotalsByCategory(db, fromDate, toDate): one query, no write
TotalsByCategory(fromDate, toDate, fail) ==
    /\ UNCHANGED <<mem, db, loc, nextSID>>
    /\ IF fail = "query"
         THEN ReturnAll("TotalsByCategory", "", "", ZeroTime, fail, ErrStorage,
                        0, [fromDate |-> fromDate, toDate |-> toDate, rows |-> <<>>])
         ELSE \E res \in OrderedByTotalDesc(
                             CategoryTotals(interval_days, fromDate, toDate)) :
                 ReturnAll("TotalsByCategory", "", "", ZeroTime, fail, Nil,
                           0, [fromDate |-> fromDate, toDate |-> toDate, rows |-> res])

\* ORDER BY date_local over distinct dates
DatesDescending(dates) ==
    CHOOSE res \in [1..Cardinality(dates) -> dates] :
        \A j, k \in DOMAIN res : j < k => res[j] > res[k]

DatesAscending(dates) ==
    CHOOSE res \in [1..Cardinality(dates) -> dates] :
        \A j, k \in DOMAIN res : j < k => res[j] < res[k]

\* SELECT DISTINCT date_local ... WHERE date_local >= ? AND date_local <= ?
\* AND duration_seconds > 0
PresentDates(days, fromDate, toDate) ==
    LET selected == SelectSeq(days, LAMBDA r :
                        /\ InRange(r.date_local, fromDate, toDate)
                        /\ r.duration_seconds > 0)
    IN {selected[k].date_local : k \in DOMAIN selected}

\* reporting.PresenceDays(db, fromDate, toDate): one query, no write
PresenceDays(fromDate, toDate, fail) ==
    /\ UNCHANGED <<mem, db, loc, nextSID>>
    /\ IF fail = "query"
         THEN ReturnAll("PresenceDays", "", "", ZeroTime, fail, ErrStorage,
                        0, [fromDate |-> fromDate, toDate |-> toDate, rows |-> <<>>])
         ELSE ReturnAll("PresenceDays", "", "", ZeroTime, fail, Nil, 0,
                        [fromDate |-> fromDate, toDate |-> toDate,
                         rows |-> DatesAscending(
                                    PresentDates(interval_days, fromDate, toDate))])

\* Runs for the reports: zone UTC+1, instants on both sides of the local
\* midnight (23:00Z) that make sessions of 40, 20 and 10 minutes, a clock
\* that never goes back, legal calls only, and reports over every range of
\* the two local days.
ReportInstants ==
    {At(0, 22, 20), At(0, 23, 0), At(0, 23, 20), At(0, 23, 30), At(0, 23, 40)}
ReportDates == {0, 1}
MaxEventsReporting == MaxEvents + 2

NextReporting ==
    \/ \E t \in ReportInstants, a \in StartArgs :
          /\ t >= clock
          /\ CurrentState # "InProgress" /\ ~CategoryMissing(a[2])
          /\ WithinBounds(MaxEventsReporting)
          /\ StartWork(a[1], a[2], t, "none")
          /\ UNCHANGED sync
    \/ \E t \in ReportInstants :
          /\ t >= clock
          /\ PauseLegal(CurrentState) /\ WithinBounds(MaxEventsReporting)
          /\ PauseWork(t, "none")
          /\ UNCHANGED sync
    \/ \E t \in ReportInstants :
          /\ t >= clock
          /\ StopLegal(CurrentState) /\ WithinBounds(MaxEventsReporting)
          /\ StopWork(t, "none")
          /\ UNCHANGED sync
    \/ \E fromDate \in ReportDates, toDate \in ReportDates :
          /\ TotalsByCategory(fromDate, toDate, "none")
          /\ UNCHANGED sync

SpecReporting == InitIn({CET}) /\ [][NextReporting]_vars

\* Runs for the presence report: the same zone and instants, runs of up to
\* MaxEvents events, and PresenceDays over every range of the two local days.
NextPresence ==
    \/ \E t \in ReportInstants, a \in StartArgs :
          /\ t >= clock
          /\ CurrentState # "InProgress" /\ ~CategoryMissing(a[2])
          /\ WithinBounds(MaxEvents)
          /\ StartWork(a[1], a[2], t, "none")
          /\ UNCHANGED sync
    \/ \E t \in ReportInstants :
          /\ t >= clock
          /\ PauseLegal(CurrentState) /\ WithinBounds(MaxEvents)
          /\ PauseWork(t, "none")
          /\ UNCHANGED sync
    \/ \E t \in ReportInstants :
          /\ t >= clock
          /\ StopLegal(CurrentState) /\ WithinBounds(MaxEvents)
          /\ StopWork(t, "none")
          /\ UNCHANGED sync
    \/ \E fromDate \in ReportDates, toDate \in ReportDates :
          /\ PresenceDays(fromDate, toDate, "none")
          /\ UNCHANGED sync

SpecPresence == InitIn({CET}) /\ [][NextPresence]_vars

(* --------------------------- restart round trip ------------------------ *)

\* the fields NewAppState gives a state object
FreshState ==
    [CurrentState |-> "Stopped", SessionID |-> NoSession, Category |-> "",
     Description |-> "", IntervalIndex |-> 0, IntervalStart |-> ZeroTime]

\* The process ends, and a new one on the same database file builds a fresh
\* state with NewAppState and calls RestoreState on it.
RestartAndRestore ==
    LET r == RestoredFrom(FreshState, "none")
    IN /\ CurrentState' = r.mem.CurrentState
       /\ SessionID' = r.mem.SessionID
       /\ Category' = r.mem.Category
       /\ Description' = r.mem.Description
       /\ IntervalIndex' = r.mem.IntervalIndex
       /\ IntervalStart' = r.mem.IntervalStart
       /\ UNCHANGED <<db, loc, nextSID>>
       /\ Return("RestartAndRestore", "", "", ZeroTime, "none", r.err)

\* Runs on a working storage, from an empty database, in which every new
\* process calls RestoreState before anything else: legal calls, and restarts
\* at operation boundaries.
NextRoundTrip ==
    \/ \E t \in Instants, a \in StartArgs :
          /\ t >= clock
          /\ CurrentState # "InProgress" /\ ~CategoryMissing(a[2])
          /\ WithinBounds(MaxEventsWorkingStorage)
          /\ StartWork(a[1], a[2], t, "none")
          /\ UNCHANGED sync
    \/ \E t \in Instants :
          /\ t >= clock
          /\ PauseLegal(CurrentState) /\ WithinBounds(MaxEventsWorkingStorage)
          /\ PauseWork(t, "none")
          /\ UNCHANGED sync
    \/ \E t \in Instants :
          /\ t >= clock
          /\ StopLegal(CurrentState) /\ WithinBounds(MaxEventsWorkingStorage)
          /\ StopWork(t, "none")
          /\ UNCHANGED sync
    \/ RestartAndRestore /\ UNCHANGED sync

SpecRoundTrip == Init /\ [][NextRoundTrip]_vars

\* Concurrent callers.  Every method of AppState begins with s.mu.Lock()
\* and defer s.mu.Unlock(): a goroutine calls a method, waits for the
\* mutex, runs the method's body and unlocks on return.

\* variant: Lock does not wait for the holder
MutexFreeAlways(m) == TRUE
\* sync.Mutex.Lock proceeds only when the mutex is unlocked
MutexFree(m) == m = 0

\* a goroutine calls StartWork, PauseWork, StopWork, RestoreState or Elapsed
Call(t) ==
    /\ pc[t] = "idle"
    /\ pc' = [pc EXCEPT ![t] = "waiting"]
    /\ UNCHANGED <<mem, db, loc, nextSID, faults, clock, last, prev, mu, seen>>

\* s.mu.Lock() returns: the goroutine enters with the state as it finds it
Lock(t) ==
    /\ pc[t] = "waiting"
    /\ MutexFree(mu)
    /\ mu' = t
    /\ pc' = [pc EXCEPT ![t] = "locked"]
    /\ seen' = [seen EXCEPT ![t] = <<Snapshot>>]
    /\ UNCHANGED <<mem, db, loc, nextSID, faults, clock, last, prev>>

\* the body of the method the goroutine called
Body(t) ==
    /\ pc[t] = "locked"
    /\ pc' = [pc EXCEPT ![t] = "returning"]
    /\ UNCHANGED <<mu, seen>>
    /\ \/ \E n \in Instants, a \in StartArgs :
             /\ n >= clock
             /\ (CurrentState = "InProgress" \/ CategoryMissing(a[2])
                   \/ WithinBounds(MaxEvents))
             /\ StartWork(a[1], a[2], n, "none")
       \/ \E n \in Instants :
             /\ n >= clock
             /\ (~PauseLegal(CurrentState) \/ WithinBounds(MaxEvents))
             /\ PauseWork(n, "none")
       \/ \E n \in Instants :
             /\ n >= clock
             /\ (~StopLegal(CurrentState) \/ WithinBounds(MaxEvents))
             /\ StopWork(n, "none")
       \/ RestoreState("none")
       \/ \E n \in Instants : n >= clock /\ Elapsed(n)

\* the deferred s.mu.Unlock()
Unlock(t) ==
    /\ pc[t] = "returning"
    /\ mu' = 0
    /\ pc' = [pc EXCEPT ![t] = "idle"]
    /\ seen' = [seen EXCEPT ![t] = <<>>]
    /\ UNCHANGED <<mem, db, loc, nextSID, faults, clock, last, prev>>

NextConcurrent ==
    \/ \E t \in Threads : Call(t)
    \/ \E t \in Threads : Lock(t)
    \/ \E t \in Threads : Body(t)
    \/ \E t \in Threads : Unlock(t)

SpecConcurrent == Init /\ [][NextConcurrent]_vars

(* ------------------------- display and handlers ------------------------ *)

\* The goroutines of RunApp: 1 runs the button handlers, 2 is the ticker
\* that refreshes the elapsed time and the state label every second.
Handlers == 1
Ticker == 2

\* StartWork up to its first write: the lock is taken and the fields are
\* assigned (CurrentState = InProgress among them) before anything is stored
StartWorkAssigns(description, category, nowUTC) ==
    /\ pc[Handlers] = "idle"
    /\ MutexFree(mu)
    /\ CurrentState # "InProgress"
    /\ ~CategoryMissing(category)
    /\ mu' = Handlers
    /\ pc' = [pc EXCEPT ![Handlers] = "persisting"]
    /\ seen' = [seen EXCEPT ![Handlers] = <<Snapshot>>]
    /\ IF CurrentState = "Stopped"
         THEN /\ SessionID' = nextSID
              /\ nextSID' = nextSID + 1
              /\ IntervalIndex' = 0
              /\ Description' = description
              /\ Category' = category
         ELSE /\ IntervalIndex' = NextIntervalIndex(IntervalIndex)
              /\ UNCHANGED <<SessionID, nextSID, Description, Category>>
    /\ IntervalStart' = nowUTC
    /\ CurrentState' = "InProgress"
    /\ UNCHANGED <<db, loc, faults, clock, last, prev>>

\* the rest of StartWork: the event and the interval row are stored, the
\* call returns and the deferred Unlock runs
StartWorkPersists ==
    /\ pc[Handlers] = "persisting"
    /\ events' = InsertEvent(events, SessionID, IntervalStart,
                             IF seen[Handlers][1].CurrentState = "Stopped"
                               THEN "START" ELSE ResumeAction,
                             Category, Description)
    /\ intervals' = OpenInterval(intervals, SessionID, IntervalIndex,
                                 IntervalStart, Category, Description)
    /\ mu' = 0
    /\ pc' = [pc EXCEPT ![Handlers] = "idle"]
    /\ seen' = [seen EXCEPT ![Handlers] = <<>>]
    /\ clock' = IntervalStart
    /\ last' = [op |-> "Start", description |-> Description,
                category |-> Category, now |-> IntervalStart, fail |-> "none",
                err |-> Nil, again |-> FALSE, elapsed |-> 0, report |-> NoReport]
    /\ prev' = seen[Handlers][1]
    /\ UNCHANGED <<mem, interval_days, loc, nextSID, faults>>

\* the ticker's el := state.Elapsed(), a call under the lock
TickerElapsed(nowUTC) ==
    /\ pc[Ticker] = "idle"
    /\ MutexFree(mu)
    /\ Elapsed(nowUTC)
    /\ pc' = [pc EXCEPT ![Ticker] = "label"]
    /\ UNCHANGED <<mu, seen>>

\* the ticker's switch state.CurrentState: a read of the field without the
\* lock. While StartWork is between its assignment and its return the read
\* races with the assignment and yields the new or the old value. The
\* observation keeps what the store held for the session at that moment.
TickerReadsState ==
    /\ pc[Ticker] = "label"
    /\ \E v \in {CurrentState} \cup
                 (IF pc[Handlers] = "persisting"
                    THEN {seen[Handlers][1].CurrentState} ELSE {}) :
          seen' = [seen EXCEPT ![Ticker] =
                     <<[CurrentState |-> v,
                        handler |-> pc[Handlers],
                        openRow |-> \E i \in DOMAIN intervals :
                                       /\ intervals[i].session_id = SessionID
                                       /\ intervals[i].end_utc = NULL,
                        lastAction |-> IF events = <<>> THEN "none"
                                       ELSE LastEvent(events).action]>>]
    /\ pc' = [pc EXCEPT ![Ticker] = "idle"]
    /\ UNCHANGED <<mem, db, loc, nextSID, faults, clock, last, prev, mu>>

\* Runs of the window: legal button presses and the ticker, interleaved.
\* PauseWork and StopWork assign CurrentState as their last step, so a read
\* in their middle is a read before them and they are taken as one step.
NextDisplay ==
    \/ \E n \in Instants, a \in StartArgs :
          /\ n >= clock /\ WithinBounds(MaxEvents)
          /\ StartWorkAssigns(a[1], a[2], n)
    \/ StartWorkPersists
    \/ \E n \in Instants :
          /\ n >= clock /\ WithinBounds(MaxEvents)
          /\ pc[Handlers] = "idle" /\ MutexFree(mu)
          /\ PauseLegal(CurrentState)
          /\ PauseWork(n, "none")
          /\ UNCHANGED sync
    \/ \E n \in Instants :
          /\ n >= clock /\ WithinBounds(MaxEvents)
          /\ pc[Handlers] = "idle" /\ MutexFree(mu)
          /\ StopLegal(CurrentState)
          /\ StopWork(n, "none")
          /\ UNCHANGED sync
    \/ \E n \in Instants : n >= clock /\ TickerElapsed(n)
    \/ TickerReadsState

SpecDisplay == Init /\ [][NextDisplay]_vars

(* ------------------------------ properties ----------------------------- *)

MemUnchanged ==
    /\ CurrentState = prev.CurrentState
    /\ SessionID = prev.SessionID
    /\ Category = prev.Category
    /\ Description = prev.Description
    /\ IntervalIndex = prev.IntervalIndex
    /\ IntervalStart = prev.IntervalStart

DBUnchanged ==
    /\ events = prev.events
    /\ intervals = prev.intervals
    /\ interval_days = prev.interval_days

\* the ids of the open interval rows of a session
OpenRows(ivs, sid) ==
    {i \in DOMAIN ivs : ivs[i].session_id = sid /\ ivs[i].end_utc = NULL}

\* the interval_days rows of one interval, in insertion order
RowsOf(days, id) == SelectSeq(days, LAMBDA r : r.interval_id = id)

RECURSIVE SumDurations(_)
SumDurations(rows) ==
    IF rows = <<>> THEN 0
    ELSE Head(rows).duration_seconds + SumDurations(Tail(rows))

ActionsOf(evs) == [i \in DOMAIN evs |-> evs[i].action]

\* the call violated the transition graph
IllegalCall ==
    \/ last.op = "Start" /\ prev.CurrentState = "InProgress"
    \/ last.op = "Pause" /\ prev.CurrentState \in {"Stopped", "Paused"}
    \/ last.op = "Stop" /\ prev.CurrentState = "Stopped"

\* C1: a call that violates the transition graph (Start while InProgress,
\* Pause while Stopped or Paused, Stop while Stopped) returns
\* ErrInvalidTransition, writes no row to any table and leaves the whole
\* in-memory session state as it was.
C1_IllegalCallRejected ==
    IllegalCall =>
        /\ last.err = ErrInvalidTransition
        /\ DBUnchanged
        /\ MemUnchanged

\* Pause was called on a paused session that has rows in the store
C1_Witness ==
    /\ last.op = "Pause"
    /\ prev.CurrentState = "Paused"
    /\ prev.events # <<>>
    /\ last.err = ErrInvalidTransition

C3_OneOpenIntervalPerSession ==
    \A i, j \in DOMAIN intervals :
        (/\ intervals[i].session_id = intervals[j].session_id
         /\ intervals[i].end_utc = NULL
         /\ intervals[j].end_utc = NULL) => i = j

\* a resume has just opened the second interval of a session whose first
\* interval is closed
C3_Witness ==
    /\ last.op = "Start"
    /\ prev.CurrentState = "Paused"
    /\ last.err = Nil
    /\ \E i, j \in DOMAIN intervals :
          /\ i < j
          /\ intervals[i].session_id = SessionID
          /\ intervals[j].session_id = SessionID
          /\ intervals[i].end_utc # NULL
          /\ intervals[j].end_utc = NULL

\* C4: when a storage write fails during Start, Pause or Stop, the call
\* returns that error and the in-memory session state is exactly what it was
\* before the call.
C4_FailedWriteKeepsMemory ==
    (last.op \in {"Start", "Pause", "Stop"} /\ last.fail # "none") =>
        /\ last.err = ErrStorage
        /\ MemUnchanged

\* the interval the last call closed: open before it, closed after it
ClosedByLast(i) ==
    /\ last.op \in {"Pause", "Stop"}
    /\ i \in DOMAIN prev.intervals
    /\ prev.intervals[i].end_utc = NULL
    /\ intervals[i].end_utc # NULL

\* C5: closing an interval and persisting its DaySlices is one atomic unit:
\* an open interval has no interval_days row, and an interval that a call
\* closed over a span with startUTC < endUTC has every row of its slicing,
\* also when a write of the close failed.
C5_CloseAndSliceAtomic ==
    \A i \in DOMAIN intervals :
        /\ intervals[i].end_utc = NULL => RowsOf(interval_days, i) = <<>>
        /\ (ClosedByLast(i) /\ prev.IntervalStart < last.now) =>
              RowsOf(interval_days, i) =
                  sliceIntervalIntoDays(i, prev.SessionID, prev.IntervalStart,
                      last.now, prev.Category, prev.Description, loc)

\* C6: the event append and the interval open/close of one Start, Pause or
\* Stop are atomic together: when the call has returned, either an event row
\* was appended and the intervals table changed, or neither happened.
\* (Stop from Paused touches no interval and is left out.)
C6_EventAndIntervalAtomic ==
    (/\ last.op \in {"Start", "Pause", "Stop"}
     /\ ~(last.op = "Stop" /\ prev.CurrentState = "Paused")) =>
        ((events # prev.events) <=> (intervals # prev.intervals))

\* C7: conservation.  In a run whose storage never failed, for every closed
\* interval with start_utc < end_utc the durations of its interval_days rows
\* add up to end_utc - start_utc and to the stored duration_seconds.
C7_Conservation ==
    faults = 0 =>
        \A i \in DOMAIN intervals :
            (intervals[i].end_utc # NULL
             /\ intervals[i].start_utc < intervals[i].end_utc) =>
                /\ SumDurations(RowsOf(interval_days, i))
                     = intervals[i].end_utc - intervals[i].start_utc
                /\ SumDurations(RowsOf(interval_days, i))
                     = intervals[i].duration_seconds

SessionsIn(rows) == {rows[i].session_id : i \in DOMAIN rows}

\* C8: Start in Stopped with a non-empty category, when its writes succeed,
\* takes a session id no stored row and no earlier in-memory session
\* carries, sets IntervalIndex to 0 and Category/Description to the
\* arguments, appends exactly one open interval row that starts at the
\* current instant and exactly one START event, writes nothing else, and
\* leaves the state InProgress.
C8_StartFromStopped ==
    (/\ last.op = "Start"
     /\ prev.CurrentState = "Stopped"
     /\ last.category # ""
     /\ last.fail = "none") =>
        /\ last.err = Nil
        /\ SessionID # NoSession
        /\ SessionID # prev.SessionID
        /\ SessionID \notin SessionsIn(prev.events) \cup SessionsIn(prev.intervals)
                              \cup SessionsIn(prev.interval_days)
        /\ IntervalIndex = 0
        /\ Category = last.category
        /\ Description = last.description
        /\ IntervalStart = last.now
        /\ CurrentState = "InProgress"
        /\ intervals = Append(prev.intervals,
               [session_id |-> SessionID, interval_index |-> 0,
                start_utc |-> last.now \div Resolution, end_utc |-> NULL,
                category |-> last.category, description |-> last.description,
                duration_seconds |-> NULL])
        /\ events = Append(prev.events,
               [session_id |-> SessionID, timestamp_utc |-> last.now \div Resolution,
                action |-> "START", category |-> last.category,
                description |-> last.description])
        /\ interval_days = prev.interval_days

\* the second session of a store has just been started
C8_Witness ==
    /\ last.op = "Start"
    /\ prev.CurrentState = "Stopped"
    /\ last.category # ""
    /\ last.fail = "none"
    /\ prev.events # <<>>
    /\ CurrentState = "InProgress"
    /\ Len(intervals) = Len(prev.intervals) + 1

\* C9: Start in Paused ignores its arguments: when its writes succeed,
\* SessionID, Category and Description are unchanged, IntervalIndex grows by
\* exactly one, exactly one open interval row (same session, the locked
\* category and description, the new index, start = the current instant) and
\* exactly one RESUME event are appended, nothing else is written, and the
\* state becomes InProgress.
C9_ResumeFromPaused ==
    (/\ last.op = "Start"
     /\ prev.CurrentState = "Paused"
     /\ last.fail = "none") =>
        /\ last.err = Nil
        /\ SessionID = prev.SessionID
        /\ Category = prev.Category
        /\ Description = prev.Description
        /\ IntervalIndex = prev.IntervalIndex + 1
        /\ IntervalStart = last.now
        /\ CurrentState = "InProgress"
        /\ intervals = Append(prev.intervals,
               [session_id |-> prev.SessionID,
                interval_index |-> prev.IntervalIndex + 1,
                start_utc |-> last.now \div Resolution, end_utc |-> NULL,
                category |-> prev.Category, description |-> prev.Description,
                duration_seconds |-> NULL])
        /\ events = Append(prev.events,
               [session_id |-> prev.SessionID,
                timestamp_utc |-> last.now \div Resolution,
                action |-> "RESUME", category |-> prev.Category,
                description |-> prev.Description])
        /\ interval_days = prev.interval_days

\* a resume was called with a description and a category that both differ
\* from the session's
C9_Witness ==
    /\ last.op = "Start"
    /\ prev.CurrentState = "Paused"
    /\ last.fail = "none"
    /\ last.category \notin {"", prev.Category}
    /\ last.description # prev.Description
    /\ CurrentState = "InProgress"

NoRowRemoved ==
    /\ Len(events) >= Len(prev.events)
    /\ SubSeq(events, 1, Len(prev.events)) = prev.events
    /\ Len(interval_days) >= Len(prev.interval_days)
    /\ SubSeq(interval_days, 1, Len(prev.interval_days)) = prev.interval_days
    /\ Len(intervals) >= Len(prev.intervals)
    /\ \A i \in DOMAIN prev.intervals :
          [intervals[i] EXCEPT !.end_utc = NULL, !.duration_seconds = NULL]
            = [prev.intervals[i] EXCEPT !.end_utc = NULL,
                                        !.duration_seconds = NULL]

\* C12 as stated: after every successful Stop the SessionID, Category and
\* Description are empty, IntervalIndex is 0 and IntervalStart is unset, and
\* no existing event, interval or interval_days row is removed.
C12_StopClearsAllFields ==
    (last.op = "Stop" /\ last.err = Nil) =>
        /\ SessionID = NoSession
        /\ Category = ""
        /\ Description = ""
        /\ IntervalIndex = 0
        /\ IntervalStart = ZeroTime
        /\ NoRowRemoved

\* C12, amended: after every successful Stop the state is Stopped, SessionID
\* is empty, IntervalIndex is 0 and IntervalStart is unset, while Category
\* and Description keep the values the session had; no existing event,
\* interval or interval_days row is removed.
C12_StopResetsSession ==
    (last.op = "Stop" /\ last.err = Nil) =>
        /\ CurrentState = "Stopped"
        /\ SessionID = NoSession
        /\ IntervalIndex = 0
        /\ IntervalStart = ZeroTime
        /\ Category = prev.Category
        /\ Description = prev.Description
        /\ NoRowRemoved

\* a successful Stop has ended a session that was on its second interval and
\* had a category and a description
C12_Witness ==
    /\ last.op = "Stop"
    /\ last.err = Nil
    /\ prev.SessionID # NoSession
    /\ prev.IntervalIndex = 1
    /\ prev.IntervalStart # ZeroTime
    /\ Category # ""
    /\ Description # ""
    /\ Len(prev.events) = 3

\* C13: Start in Stopped with an empty category returns the validation
\* error, which is not ErrInvalidTransition, writes no row, leaves every
\* field of the in-memory state as it was (still Stopped) and draws no
\* session id.
C13_EmptyCategoryRejected ==
    (last.op = "Start" /\ prev.CurrentState = "Stopped" /\ last.category = "") =>
        /\ last.err = ErrCategoryRequired
        /\ last.err # ErrInvalidTransition
        /\ DBUnchanged
        /\ MemUnchanged
        /\ CurrentState = "Stopped"
        /\ nextSID = prev.nextSID

\* a Start with a description and no category was rejected in a Stopped
\* state that still shows the category of an ended session
C13_Witness ==
    /\ last.op = "Start"
    /\ prev.CurrentState = "Stopped"
    /\ last.category = ""
    /\ last.description # ""
    /\ last.err = ErrCategoryRequired
    /\ Category # ""
    /\ events # <<>>

\* the open interval rows of a store, of whatever session
OpenIntervals(ivs) == {i \in DOMAIN ivs : ivs[i].end_utc = NULL}

\* C14: a Restore whose query succeeds on a store that holds at least one
\* open interval leaves the state InProgress with SessionID, Category,
\* Description, IntervalIndex and IntervalStart (the start_utc second as an
\* instant) of the open interval row with the highest id, whatever the
\* events table holds.
C14_RestoreOpenInterval ==
    (/\ last.op = "Restore"
     /\ last.fail = "none"
     /\ OpenIntervals(prev.intervals) # {}) =>
        LET open == OpenIntervals(prev.intervals)
            row == prev.intervals[CHOOSE i \in open : \A j \in open : j <= i]
        IN /\ last.err = Nil
           /\ CurrentState = "InProgress"
           /\ SessionID = row.session_id
           /\ Category = row.category
           /\ Description = row.description
           /\ IntervalIndex = row.interval_index
           /\ IntervalStart = row.start_utc * Resolution

\* a Restore in a fresh process found the open intervals of two sessions
\* and took the later one, which is on its second interval
C14_Witness ==
    /\ last.op = "Restore"
    /\ last.err = Nil
    /\ prev.CurrentState = "Stopped"
    /\ CurrentState = "InProgress"
    /\ Cardinality(OpenIntervals(prev.intervals)) = 2
    /\ IntervalIndex = 1
    /\ \E k \in DOMAIN events : events[k].action = "PAUSE"

\* C15: a Restore whose queries succeed on a store with no open interval:
\* if the event with the highest id is a PAUSE, the state becomes Paused
\* with that event's session id, category and description; if the events
\* table is empty or its last event is anything else, no field of the
\* in-memory state changes, so a Stopped state remains Stopped; and in a run
\* whose storage never failed the state then is Stopped.
C15_RestoreNoOpenInterval ==
    (/\ last.op = "Restore"
     /\ last.fail = "none"
     /\ OpenIntervals(prev.intervals) = {}) =>
        /\ last.err = Nil
        /\ IF prev.events # <<>>
              /\ prev.events[Len(prev.events)].action = "PAUSE"
           THEN /\ CurrentState = "Paused"
                /\ SessionID = prev.events[Len(prev.events)].session_id
                /\ Category = prev.events[Len(prev.events)].category
                /\ Description = prev.events[Len(prev.events)].description
           ELSE /\ MemUnchanged
                /\ prev.CurrentState = "Stopped" => CurrentState = "Stopped"
                /\ faults = 0 => CurrentState = "Stopped"

\* a Restore in a fresh process found no open interval and a PAUSE as the
\* last of several events, and restored the paused session
C15_Witness ==
    /\ last.op = "Restore"
    /\ last.err = Nil
    /\ OpenIntervals(prev.intervals) = {}
    /\ prev.CurrentState = "Stopped"
    /\ prev.SessionID = NoSession
    /\ CurrentState = "Paused"
    /\ SessionID # NoSession
    /\ Len(events) >= 2
    /\ events[1].action = "START"

\* a Restore found no open interval and a STOP as the last event, and the
\* state remained Stopped
C15_WitnessStopped ==
    /\ last.op = "Restore"
    /\ last.err = Nil
    /\ OpenIntervals(prev.intervals) = {}
    /\ events # <<>>
    /\ events[Len(events)].action = "STOP"
    /\ CurrentState = "Stopped"

\* the in-memory state NewAppState builds, before any session was started
\* or restored in this process (a started session leaves a category behind)
FreshProcess(m) ==
    /\ m.CurrentState = "Stopped"
    /\ m.SessionID = NoSession
    /\ m.Category = ""
    /\ m.Description = ""
    /\ m.IntervalIndex = 0
    /\ m.IntervalStart = ZeroTime

\* C16: the state is restored from the tables before a process accepts its
\* first Start, Pause or Stop: no such call is served in the state of a
\* fresh process on a store that holds an open interval (the process would
\* be InProgress) or whose last event is a PAUSE (it would be Paused).
C16_RestoredBeforeFirstOperation ==
    (last.op \in {"Start", "Pause", "Stop"} /\ FreshProcess(prev)) =>
        /\ OpenIntervals(prev.intervals) = {}
        /\ prev.events # <<>> =>
              prev.events[Len(prev.events)].action # "PAUSE"

\* C17: Restore is idempotent: the second of two successful Restore calls
\* in a row, with no other call and no restart in between, leaves
\* CurrentState, SessionID, Category, Description, IntervalIndex and
\* IntervalStart as the first call left them.
C17_RestoreIdempotent ==
    last.again => MemUnchanged

\* Restore was called twice in a row on a store whose last event is a PAUSE
\* and that holds no open interval, and the state is Paused
C17_Witness ==
    /\ last.again
    /\ CurrentState = "Paused"
    /\ OpenIntervals(intervals) = {}
    /\ events[Len(events)].action = "PAUSE"
    /\ events[Len(events)].session_id = SessionID

\* Restore was called twice in a row on a store with an open interval
C17_WitnessInProgress ==
    /\ last.again
    /\ CurrentState = "InProgress"
    /\ OpenIntervals(intervals) # {}

\* C18: Restore never writes: events, intervals and interval_days are the
\* same before and after every Restore call, whether it restored a session,
\* left the state alone or returned an error.
C18_RestoreNeverWrites ==
    last.op = "Restore" => DBUnchanged

\* a Restore has brought a fresh process to InProgress or Paused on a store
\* that holds events, intervals and interval_days rows
C18_Witness ==
    /\ last.op = "Restore"
    /\ last.err = Nil
    /\ FreshProcess(prev)
    /\ CurrentState # "Stopped"
    /\ events # <<>>
    /\ intervals # <<>>
    /\ interval_days # <<>>

\* a Restore has returned the error of a failed query
C18_WitnessFailed ==
    /\ last.op = "Restore"
    /\ last.err = ErrStorage
    /\ events # <<>>

\* the interval rows of one session, in the order they were opened (by id)
IntervalsOf(ivs, sid) == SelectSeq(ivs, LAMBDA r : r.session_id = sid)

\* C19: within one session the interval rows carry the indices 0, 1, 2, ...
\* in opening order, with no gap and no duplicate, in every run, including
\* runs in which a new process restores the Paused state between a Pause
\* and the next Resume.
C19_IndicesGapless ==
    \A sid \in SessionsIn(intervals) :
        \A k \in DOMAIN IntervalsOf(intervals, sid) :
            IntervalsOf(intervals, sid)[k].interval_index = k - 1

\* the rows of the three tables together, reduced to the fields they share
SessionRows ==
    {[session_id |-> events[i].session_id, category |-> events[i].category,
      description |-> events[i].description] : i \in DOMAIN events}
    \cup {[session_id |-> intervals[i].session_id,
           category |-> intervals[i].category,
           description |-> intervals[i].description] : i \in DOMAIN intervals}
    \cup {[session_id |-> interval_days[i].session_id,
           category |-> interval_days[i].category,
           description |-> interval_days[i].description] :
              i \in DOMAIN interval_days}

\* C20: a session's category and description are fixed for its lifetime:
\* no Start, Pause or Stop called while the state is not Stopped changes
\* Category or Description; the START event of a Start from Stopped carries
\* the arguments of that call; and every event, interval and interval_days
\* row of a session carries the category and description of the session's
\* START event.
C20_CategoryAndDescriptionFixed ==
    /\ (last.op \in {"Start", "Pause", "Stop"}
          /\ prev.CurrentState # "Stopped") =>
          (Category = prev.Category /\ Description = prev.Description)
    /\ (last.op = "Start" /\ prev.CurrentState = "Stopped"
          /\ events # prev.events) =>
          /\ events[Len(events)].action = "START"
          /\ events[Len(events)].category = last.category
          /\ events[Len(events)].description = last.description
    /\ \A r \in SessionRows :
          \E i \in DOMAIN events :
              /\ events[i].action = "START"
              /\ events[i].session_id = r.session_id
              /\ events[i].category = r.category
              /\ events[i].description = r.description

\* a session that was started, paused with a stored slice and resumed by a
\* Start with another category and description still carries the values of
\* its first Start, in memory and in the rows of the resume
C20_Witness ==
    /\ last.op = "Start"
    /\ prev.CurrentState = "Paused"
    /\ last.err = Nil
    /\ last.category # Category
    /\ last.description # Description
    /\ interval_days # <<>>
    /\ interval_days[1].session_id = SessionID
    /\ events[Len(events)].action = "RESUME"
    /\ events[Len(events)].category = Category
    /\ Len(intervals) >= 2

\* the action of the event a successful call appends
EventOfCall ==
    CASE last.op = "Start" /\ prev.CurrentState = "Stopped" -> "START"
      [] last.op = "Start" /\ prev.CurrentState # "Stopped" -> "RESUME"
      [] last.op = "Pause" -> "PAUSE"
      [] last.op = "Stop" -> "STOP"
      [] OTHER -> "none"

\* C21: the event log is append-only.  No call (Start, Pause, Stop, Restore,
\* a failing call, a process restart) changes or removes an existing event
\* row; every successful Start, Pause or Stop appends exactly one row, at the
\* end (its id is greater than every earlier id), with the action of the
\* transition it made and the session it made it in; a call never appends
\* more than one row.
C21_EventLogAppendOnly ==
    /\ Len(events) >= Len(prev.events)
    /\ Len(events) <= Len(prev.events) + 1
    /\ SubSeq(events, 1, Len(prev.events)) = prev.events
    /\ (last.op \in {"Start", "Pause", "Stop"} /\ last.err = Nil) =>
          /\ Len(events) = Len(prev.events) + 1
          /\ events[Len(events)].action = EventOfCall
          /\ events[Len(events)].session_id =
                (IF last.op = "Stop" THEN prev.SessionID ELSE SessionID)
          /\ events[Len(events)].timestamp_utc = last.now \div Resolution

\* a Stop has appended the fourth event of a session whose log reads
\* START, PAUSE, RESUME, STOP
C21_Witness ==
    /\ last.op = "Stop"
    /\ last.err = Nil
    /\ ActionsOf(events) = <<"START", "PAUSE", "RESUME", "STOP">>
    /\ SessionsIn(events) = {prev.SessionID}

\* C23: Elapsed returns the time from the current interval's start to the
\* instant of the call when the state is InProgress, and zero in Stopped and
\* in Paused; it changes no field of the in-memory state and writes no row.
C23_ElapsedReadsOnly ==
    last.op = "Elapsed" =>
        /\ MemUnchanged
        /\ DBUnchanged
        /\ last.err = Nil
        /\ prev.CurrentState = "InProgress" =>
              last.elapsed = last.now - prev.IntervalStart
        /\ prev.CurrentState \in {"Stopped", "Paused"} => last.elapsed = 0

\* Elapsed has returned three seconds for an interval in progress
C23_Witness ==
    /\ last.op = "Elapsed"
    /\ CurrentState = "InProgress"
    /\ last.elapsed = 3 * Resolution
    /\ OpenIntervals(intervals) # {}

\* Elapsed has returned zero for a paused session whose last interval began
\* before the call
C23_WitnessPaused ==
    /\ last.op = "Elapsed"
    /\ CurrentState = "Paused"
    /\ last.elapsed = 0
    /\ IntervalStart # ZeroTime
    /\ IntervalStart < last.now

\* C22: StartWork, PauseWork, StopWork, RestoreState and Elapsed exclude
\* each other: under every interleaving of the goroutines at most one is
\* between its Lock and its Unlock, and it holds the mutex; the state and the
\* tables a goroutine found on entering are the ones its body runs on, so
\* the bodies take effect one after the other in the order of the Locks.
C22_MutualExclusion ==
    /\ \A t, u \in Threads :
          (t # u /\ pc[t] \in {"locked", "returning"}) =>
              pc[u] \in {"idle", "waiting"}
    /\ \A t \in Threads :
          /\ pc[t] \in {"locked", "returning"} <=> mu = t
          /\ pc[t] = "locked" => seen[t] = <<Snapshot>>
          /\ pc[t] = "returning" => seen[t] = <<prev>>

\* a goroutine is inside a Stop that ended a session while the other one
\* has called a method and waits for the mutex
C22_Witness ==
    /\ pc[1] = "returning"
    /\ pc[2] = "waiting"
    /\ last.op = "Stop"
    /\ last.err = Nil
    /\ prev.CurrentState = "InProgress"
    /\ events # prev.events

\* the last call had to close the session's interval and the store held no
\* open interval of that session
ClosedWithoutOpenInterval ==
    /\ last.op \in {"Pause", "Stop"}
    /\ prev.CurrentState = "InProgress"
    /\ OpenRows(prev.intervals, prev.SessionID) = {}

\* C24: closing when the session has no open interval fails with the
\* NoOpenInterval error and fabricates nothing: no interval row gets an
\* end_utc, no interval_days row is inserted, no event is appended and the
\* in-memory state is unchanged.
C24_NoOpenIntervalError ==
    ClosedWithoutOpenInterval =>
        /\ last.err = ErrNoOpenInterval
        /\ DBUnchanged
        /\ MemUnchanged

\* the part of C24 the code keeps: the call fails and fabricates nothing
C24_NothingFabricated ==
    ClosedWithoutOpenInterval =>
        /\ last.err = ErrFindOpenInterval
        /\ DBUnchanged
        /\ MemUnchanged

\* C25: for every closed interval row the stored duration_seconds equals
\* max(0, end_utc - start_utc) of the stored whole seconds, for all start
\* and end instants, also with sub-second parts and after a Restore.
C25_DurationIsStoredDifference ==
    \A i \in DOMAIN intervals :
        intervals[i].end_utc # NULL =>
            intervals[i].duration_seconds =
                (IF intervals[i].end_utc > intervals[i].start_utc
                   THEN intervals[i].end_utc - intervals[i].start_utc ELSE 0)

\* what the code keeps of C25: the stored duration is the whole seconds of
\* the span from the in-memory start to the end instant, floored at zero,
\* which is the stored difference or one second less
C25_DurationWithinOneSecond ==
    \A i \in DOMAIN intervals :
        (ClosedByLast(i) /\ last.err # NoReturn) =>
            LET diff == intervals[i].end_utc - intervals[i].start_utc
            IN /\ intervals[i].duration_seconds >= 0
               /\ diff >= 0 => intervals[i].duration_seconds \in {diff, diff - 1}
               /\ diff < 0 => intervals[i].duration_seconds = 0

\* C26: no interval_days row with duration_seconds <= 0 is ever stored, and
\* a close with startUTC >= endUTC (a zero-length interval, or a wall clock
\* that was set back) stores no interval_days row at all.
C26_NoEmptySlice ==
    /\ \A k \in DOMAIN interval_days : interval_days[k].duration_seconds > 0
    /\ \A i \in DOMAIN intervals :
          (ClosedByLast(i) /\ prev.IntervalStart >= last.now) =>
              interval_days = prev.interval_days

\* a Stop at an instant before the interval's start (the clock was set
\* back) has closed the interval with duration 0 and stored no slice, in a
\* store that holds the slices of an earlier interval
C26_Witness ==
    /\ last.op = "Stop"
    /\ last.err = Nil
    /\ prev.CurrentState = "InProgress"
    /\ prev.IntervalStart > last.now
    /\ intervals[Len(intervals)].duration_seconds = 0
    /\ interval_days = prev.interval_days
    /\ interval_days # <<>>

\* an interval with half a second before the local midnight and half an
\* hour after it was closed with one slice, for the second day only
C26_WitnessShortSegment ==
    /\ last.op \in {"Pause", "Stop"}
    /\ last.err = Nil
    /\ loc = CET
    /\ prev.IntervalStart = At(0, 23, 0) - 1
    /\ last.now = At(0, 23, 30)
    /\ Len(interval_days) = Len(prev.interval_days) + 1

\* The UTC second at which the local calendar day `day` begins in a zone:
\* local midnight by the offset in force, or the zone's change itself when
\* the clock skips that midnight.  (Stated from the calendar, not from the
\* code's time.Date.)
DayBegins(day, tz) ==
    LET byBefore == day * SecondsPerDay - tz.before
        byAfter == day * SecondsPerDay - tz.after
    IN IF byBefore < tz.at THEN byBefore
       ELSE IF byAfter >= tz.at THEN byAfter
       ELSE tz.at

\* the whole seconds of [startUTC, endUTC) that fall inside a local day
SecondsInDay(startUTC, endUTC, day, tz) ==
    LET from == IF startUTC > TimeUnix(DayBegins(day, tz))
                  THEN startUTC ELSE TimeUnix(DayBegins(day, tz))
        to == IF endUTC < TimeUnix(DayBegins(day + 1, tz))
                THEN endUTC ELSE TimeUnix(DayBegins(day + 1, tz))
    IN IF to > from THEN (to - from) \div Resolution ELSE 0

\* the local days an interval touches for a second or more, ascending, each
\* with its seconds
DaysTouched(startUTC, endUTC, tz) ==
    LET first == LocalDay(startUTC, tz)
        lastDay == LocalDay(endUTC - 1, tz)
        all == [k \in 1..(lastDay - first + 1) |->
                  [date_local |-> first + k - 1,
                   duration_seconds |->
                       SecondsInDay(startUTC, endUTC, first + k - 1, tz)]]
    IN SelectSeq(all, LAMBDA r : r.duration_seconds > 0)

\* the dates and durations of the slices stored for an interval
SlicesOf(id) ==
    [k \in DOMAIN RowsOf(interval_days, id) |->
        [date_local |-> RowsOf(interval_days, id)[k].date_local,
         duration_seconds |-> RowsOf(interval_days, id)[k].duration_seconds]]

\* C27: an interval closed over a span with startUTC < endUTC has exactly
\* one interval_days row per local calendar day it touches (for a second or
\* more): the dates ascend day by day from the local date of the start to
\* the local date of the last instant before the end, and each duration is
\* the number of seconds of the interval inside that local day.
C27_OneSlicePerLocalDay ==
    \A i \in DOMAIN intervals :
        (ClosedByLast(i) /\ prev.IntervalStart < last.now) =>
            SlicesOf(i) = DaysTouched(prev.IntervalStart, last.now, loc)

\* what the code keeps of C27: the slices are right whenever the close
\* returns
C27_SlicesWhenReturned ==
    \A i \in DOMAIN intervals :
        (ClosedByLast(i) /\ prev.IntervalStart < last.now /\ last.err = Nil) =>
            SlicesOf(i) = DaysTouched(prev.IntervalStart, last.now, loc)

\* the interval closed by the last call began before the zone's change of
\* offset and ended after it
SpansTransition ==
    /\ loc.before # loc.after
    /\ prev.IntervalStart < TimeUnix(loc.at)
    /\ TimeUnix(loc.at) < last.now

\* C28: for an interval that spans a spring-forward or a fall-back the slice
\* durations add up to endUTC - startUTC, and there are as many slices as
\* local calendar days touched.
C28_TransitionSlicesAddUp ==
    \A i \in DOMAIN intervals :
        (ClosedByLast(i) /\ SpansTransition) =>
            /\ SumDurations(RowsOf(interval_days, i)) * Resolution
                   = last.now - prev.IntervalStart
            /\ Len(RowsOf(interval_days, i))
                   = LocalDay(last.now - 1, loc)
                       - LocalDay(prev.IntervalStart, loc) + 1

\* what the code keeps of C28: the same whenever the close returns
C28_AddUpWhenReturned ==
    \A i \in DOMAIN intervals :
        (ClosedByLast(i) /\ SpansTransition /\ last.err = Nil) =>
            /\ SumDurations(RowsOf(interval_days, i)) * Resolution
                   = last.now - prev.IntervalStart
            /\ Len(RowsOf(interval_days, i))
                   = LocalDay(last.now - 1, loc)
                       - LocalDay(prev.IntervalStart, loc) + 1

\* C28's example: a start at local 01:30 before a 02:00 -> 03:00
\* spring-forward and a stop three real hours later leave one slice of
\* 3 * 3600 seconds.
C28_SpringForwardExample ==
    \A i \in DOMAIN intervals :
        (/\ ClosedByLast(i)
         /\ loc = PacificSpring
         /\ prev.IntervalStart = At(1, 9, 30)
         /\ last.now = At(1, 12, 30)) =>
            SlicesOf(i) = <<[date_local |-> 1, duration_seconds |-> 3 * 3600]>>

C28_ExampleReached ==
    /\ loc = PacificSpring
    /\ last.op = "Stop"
    /\ prev.IntervalStart = At(1, 9, 30)
    /\ last.now = At(1, 12, 30)
    /\ \E i \in DOMAIN intervals : ClosedByLast(i)

\* C29's scenario, with day 0 standing for 2024-01-15: in a zone at UTC+1,
\* Start("write spec", "Task") at 23:30:00Z of day 0, then Stop at 01:10:00Z
\* of day 1
StartThenStopOverUTCMidnight ==
    /\ loc = CET
    /\ last.op = "Stop"
    /\ last.now = At(1, 1, 10)
    /\ prev.CurrentState = "InProgress"
    /\ prev.IntervalStart = At(0, 23, 30)
    /\ prev.IntervalIndex = 0
    /\ prev.Description = "write spec" /\ prev.Category = "Task"

\* C29 as stated: the scenario stores exactly one slice, dated 2024-01-16,
\* of 2400 seconds.
C29_OneSliceOf2400 ==
    StartThenStopOverUTCMidnight =>
        \A i \in DOMAIN intervals :
            ClosedByLast(i) =>
                SlicesOf(i) = <<[date_local |-> 1, duration_seconds |-> 2400]>>

\* C29, amended: the scenario stores exactly one slice, dated 2024-01-16
\* (both instants fall on that local day), and its duration is the 100
\* minutes between the two instants, 6000 seconds.
C29_OneSliceOf6000 ==
    StartThenStopOverUTCMidnight =>
        \A i \in DOMAIN intervals :
            ClosedByLast(i) =>
                SlicesOf(i) = <<[date_local |-> 1, duration_seconds |-> 6000]>>

C29_Witness ==
    /\ StartThenStopOverUTCMidnight
    /\ \E i \in DOMAIN intervals :
          /\ ClosedByLast(i)
          /\ intervals[i].start_utc = Unix(At(0, 23, 30))
          /\ intervals[i].end_utc = Unix(At(1, 1, 10))
          /\ Len(RowsOf(interval_days, i)) = 1

\* the interval_days rows of a category dated within [fromDate, toDate]
SlicesInRange(c, fromDate, toDate) ==
    {k \in DOMAIN interval_days :
        /\ interval_days[k].category = c
        /\ fromDate <= interval_days[k].date_local
        /\ interval_days[k].date_local <= toDate}

RECURSIVE SecondsOfSlices(_)
SecondsOfSlices(ks) ==
    IF ks = {} THEN 0
    ELSE LET k == CHOOSE x \in ks : TRUE
         IN interval_days[k].duration_seconds + SecondsOfSlices(ks \ {k})

\* C30: TotalsByCategory(from, to) returns exactly one entry for each
\* category that has a slice dated within [from, to], both bounds included,
\* holding the sum of those slices' seconds, no entry for any other category,
\* and the entries in descending order of total.
C30_TotalsByCategory ==
    (last.op = "TotalsByCategory" /\ last.err = Nil) =>
        LET rows == last.report.rows
            from == last.report.fromDate
            to == last.report.toDate
        IN /\ \A c \in {"", "Task", "Project"} :
                 IF SlicesInRange(c, from, to) # {}
                   THEN /\ Cardinality({k \in DOMAIN rows :
                                            rows[k].Category = c}) = 1
                        /\ \A k \in DOMAIN rows :
                              rows[k].Category = c =>
                                  rows[k].TotalSeconds =
                                      SecondsOfSlices(SlicesInRange(c, from, to))
                   ELSE \A k \in DOMAIN rows : rows[k].Category # c
           /\ \A k \in DOMAIN rows : rows[k].Category \in {"", "Task", "Project"}
           /\ \A j, k \in DOMAIN rows :
                 j < k => rows[j].TotalSeconds >= rows[k].TotalSeconds

\* C30's example: Task sessions of 40 and 20 minutes and a Project session
\* of 10 minutes, on two local days, reported over both days
C30_Witness ==
    /\ last.op = "TotalsByCategory"
    /\ last.report.fromDate = 0 /\ last.report.toDate = 1
    /\ Len(intervals) = 3 /\ Len(interval_days) = 3
    /\ \A i \in DOMAIN intervals :
          /\ intervals[i].interval_index = 0
          /\ intervals[i].end_utc # NULL
          /\ Len(RowsOf(interval_days, i)) = 1
    /\ \E a, b, c \in DOMAIN interval_days :
          /\ interval_days[a].category = "Task"
          /\ interval_days[a].duration_seconds = 2400
          /\ interval_days[a].date_local = 0
          /\ interval_days[b].category = "Task"
          /\ interval_days[b].duration_seconds = 1200
          /\ interval_days[b].date_local = 1
          /\ interval_days[c].category = "Project"
          /\ interval_days[c].duration_seconds = 600
    /\ last.report.rows = <<[Category |-> "Task", TotalSeconds |-> 3600],
                            [Category |-> "Project", TotalSeconds |-> 600]>>

\* a report whose range ends on the day of the only slices it returns, and
\* one with two categories of equal totals
C30_WitnessUpperBound ==
    /\ last.op = "TotalsByCategory"
    /\ last.report.fromDate = 0 /\ last.report.toDate = 0
    /\ last.report.rows = <<[Category |-> "Task", TotalSeconds |-> 2400]>>

C30_WitnessTie ==
    /\ last.op = "TotalsByCategory"
    /\ Len(last.report.rows) = 2
    /\ last.report.rows[1].TotalSeconds = last.report.rows[2].TotalSeconds

\* C31: PresenceDays(from, to) returns exactly the dates within [from, to]
\* that have a slice of positive duration, each once, in ascending order; a
\* date without slices is never returned.
C31_PresenceDays ==
    (last.op = "PresenceDays" /\ last.err = Nil) =>
        LET rows == last.report.rows
            from == last.report.fromDate
            to == last.report.toDate
        IN /\ \A d \in ReportDates :
                 (\E k \in DOMAIN rows : rows[k] = d) <=>
                     /\ from <= d /\ d <= to
                     /\ \E i \in DOMAIN interval_days :
                           /\ interval_days[i].date_local = d
                           /\ interval_days[i].duration_seconds > 0
           /\ \A k \in DOMAIN rows : rows[k] \in ReportDates
           /\ \A j, k \in DOMAIN rows : j < k => rows[j] < rows[k]

\* a report of both days, one of which has two slices, while the store has
\* a slice-free interval besides
C31_Witness ==
    /\ last.op = "PresenceDays"
    /\ last.report.rows = <<0, 1>>
    /\ \E i, j \in DOMAIN interval_days :
          i # j /\ interval_days[i].date_local = interval_days[j].date_local

\* a report that leaves out a day with slices because the range ends before it
C31_WitnessOutOfRange ==
    /\ last.op = "PresenceDays"
    /\ last.report.fromDate = 0 /\ last.report.toDate = 0
    /\ last.report.rows = <<0>>
    /\ \E i \in DOMAIN interval_days : interval_days[i].date_local = 1

\* memory and store agree on the open interval
MemoryAgreesWithStore ==
    /\ CurrentState = "InProgress" <=> Cardinality(OpenIntervals(intervals)) = 1
    /\ CurrentState = "InProgress" =>
          \A i \in OpenIntervals(intervals) :
              /\ intervals[i].session_id = SessionID
              /\ intervals[i].interval_index = IntervalIndex
    /\ CurrentState \in {"Stopped", "Paused"} => OpenIntervals(intervals) = {}

\* C32: after every operation of a run with working storage, CurrentState is
\* InProgress exactly when one interval row of the whole store is open, that
\* row has the current SessionID and interval_index = IntervalIndex, and in
\* Stopped or Paused no interval row of any session is open.
C32_MemoryAgreesWithStore ==
    last.op \in {"Start", "Pause", "Stop", "Restore"} => MemoryAgreesWithStore

\* what the code keeps of C32: the agreement within one process, that is in
\* the runs of SpecReporting, which have no restart
C32_AgreesWithinProcess == MemoryAgreesWithStore

\* C33: after any sequence of successful Start, Pause and Stop calls, a
\* restart followed by RestoreState on the fresh state gives the same
\* CurrentState as before the restart and, when that state is InProgress or
\* Paused, the same SessionID, Category and Description.
C33_RestartRoundTrip ==
    last.op = "RestartAndRestore" =>
        /\ last.err = Nil
        /\ CurrentState = prev.CurrentState
        /\ CurrentState \in {"InProgress", "Paused"} =>
              /\ SessionID = prev.SessionID
              /\ Category = prev.Category
              /\ Description = prev.Description

\* a round trip from Paused after a resume, and one from InProgress
C33_Witness ==
    /\ last.op = "RestartAndRestore"
    /\ prev.CurrentState = "Paused" /\ CurrentState = "Paused"
    /\ SessionID # NoSession
    /\ Len(intervals) = 2

C33_WitnessInProgress ==
    /\ last.op = "RestartAndRestore"
    /\ prev.CurrentState = "InProgress" /\ CurrentState = "InProgress"
    /\ Len(intervals) = 2

C33_WitnessStopped ==
    /\ last.op = "RestartAndRestore"
    /\ prev.CurrentState = "Stopped" /\ events # <<>>

\* In the memory m and on the store s, every Start, Pause and Stop fails
\* although the storage works: Start is rejected in InProgress, and Pause and
\* Stop return the error of the close, at whatever instant they are called.
DeadEndIn(m, ivs, days) ==
    /\ m.CurrentState = "InProgress"
    /\ \A t \in Instants :
          CloseOpenIntervalAndSliceDays(ivs, days, m.SessionID, m.IntervalStart,
                                        t, m.Category, m.Description, loc,
                                        "none").err # Nil

DeadEnd ==
    DeadEndIn([CurrentState |-> CurrentState, SessionID |-> SessionID,
               IntervalStart |-> IntervalStart, Category |-> Category,
               Description |-> Description], intervals, interval_days)

\* C34: after a failed write, with the storage working again, the machine
\* can be brought back to Stopped by Stop (or Pause then Stop) and started
\* again; no reachable state is a dead end in which Start, Pause and Stop
\* all fail although the storage works.
C34_NoDeadEnd == ~DeadEnd

\* what the code does instead: in a dead end every Start, Pause and Stop on
\* a working storage returns an error and leaves memory and store as they
\* were, so the dead end lasts until the process ends
C34_DeadEndLasts ==
    (/\ last.op \in {"Start", "Pause", "Stop"}
     /\ last.fail = "none"
     /\ DeadEndIn(prev, prev.intervals, prev.interval_days)) =>
        /\ last.err # Nil
        /\ MemUnchanged /\ DBUnchanged
        /\ DeadEnd

C34_DeadEndTried ==
    ~(/\ last.op \in {"Pause", "Stop"}
      /\ last.fail = "none"
      /\ DeadEndIn(prev, prev.intervals, prev.interval_days))

\* the actions of a session's events, in insertion order
SessionActions(sid) ==
    LET rows == SelectSeq(events, LAMBDA e : e.session_id = sid)
    IN [k \in DOMAIN rows |-> rows[k].action]

\* PAUSE/RESUME pairs, then optionally one PAUSE, then at most one STOP:
\* what may follow a START, read from the left (working = TRUE after a
\* START or RESUME, FALSE after a PAUSE)
RECURSIVE AfterStart(_, _)
AfterStart(actions, working) ==
    IF actions = <<>> THEN TRUE
    ELSE CASE Head(actions) = "STOP" -> Tail(actions) = <<>>
           [] Head(actions) = "PAUSE" -> working /\ AfterStart(Tail(actions), FALSE)
           [] Head(actions) = "RESUME" -> ~working /\ AfterStart(Tail(actions), TRUE)
           [] OTHER -> FALSE

\* C35: on a working storage, restarts followed by Restore included, the
\* events of each session form START, PAUSE/RESUME pairs, optionally one
\* PAUSE, then at most one STOP; and a session's START is appended only
\* after a STOP of every session that has events before it.
C35_SessionEventOrder ==
    /\ \A j \in DOMAIN events :
          LET acts == SessionActions(events[j].session_id)
          IN Head(acts) = "START" /\ AfterStart(Tail(acts), TRUE)
    /\ \A j \in DOMAIN events :
          events[j].action = "START" =>
              \A i \in 1..(j - 1) :
                  /\ events[i].session_id # events[j].session_id
                  /\ \E k \in i..(j - 1) :
                        /\ events[k].session_id = events[i].session_id
                        /\ events[k].action = "STOP"

\* a session is paused, resumed and stopped, and a second session follows
C35_Witness ==
    /\ Len(events) = 5
    /\ [k \in DOMAIN events |-> events[k].action]
          = <<"START", "PAUSE", "RESUME", "STOP", "START">>
    /\ events[5].session_id # events[1].session_id
    /\ last.op = "Start"

\* a session that a new process restored as Paused (its index is 0 although
\* the session has two intervals) is resumed
C35_WitnessRestored ==
    /\ last.op = "Start" /\ last.err = Nil
    /\ prev.CurrentState = "Paused"
    /\ prev.IntervalIndex = 0
    /\ Len(IntervalsOf(prev.intervals, prev.SessionID)) = 2
    /\ LastEvent(events).action = "RESUME"

\* C36: no reader of the session state runs concurrently with a transition:
\* whenever the display poll reads CurrentState no Start is in its middle,
\* and a read of InProgress finds the START or RESUME event and the open
\* interval row of the session in the store.
C36_NoReadDuringTransition ==
    \A k \in DOMAIN seen[Ticker] :
        /\ seen[Ticker][k].handler = "idle"
        /\ seen[Ticker][k].CurrentState = "InProgress" =>
              /\ seen[Ticker][k].openRow
              /\ seen[Ticker][k].lastAction \in {"START", "RESUME"}

\* the weaker statement about the value read alone: a read of InProgress
\* finds the event and the open interval row stored
C36_InProgressReadIsPersisted ==
    \A k \in DOMAIN seen[Ticker] :
        seen[Ticker][k].CurrentState = "InProgress" =>
            /\ seen[Ticker][k].openRow
            /\ seen[Ticker][k].lastAction \in {"START", "RESUME"}

RECURSIVE SumTotals(_)
SumTotals(groups) ==
    IF groups = {} THEN 0
    ELSE LET g == CHOOSE x \in groups : TRUE
         IN g.TotalSeconds + SumTotals(groups \ {g})

RECURSIVE SumClosed(_)
SumClosed(ivs) ==
    IF ivs = <<>> THEN 0
    ELSE (IF Head(ivs).end_utc # NULL THEN Head(ivs).duration_seconds ELSE 0)
           + SumClosed(Tail(ivs))

\* the date range from the earliest to the latest date_local of the store
StoredDates == {interval_days[k].date_local : k \in DOMAIN interval_days}
FirstDate ==
    IF StoredDates = {} THEN 0
    ELSE CHOOSE d \in StoredDates : \A e \in StoredDates : d <= e
LastDate ==
    IF StoredDates = {} THEN 0
    ELSE CHOOSE d \in StoredDates : \A e \in StoredDates : d >= e

\* C37: on a working storage, in every reachable state, the totals of
\* TotalsByCategory over a range covering every date add up to the sum of
\* duration_seconds of the closed intervals, and an open interval has no
\* slice, so it adds nothing to TotalsByCategory or PresenceDays.
C37_ReportsAccountForClosedWork ==
    /\ SumTotals(CategoryTotals(interval_days, FirstDate, LastDate))
          = SumClosed(intervals)
    /\ \A i \in OpenIntervals(intervals) : RowsOf(interval_days, i) = <<>>

\* what the code keeps of C37: the reports never exceed the closed work,
\* and open intervals add nothing
C37_ReportsWithinClosedWork ==
    /\ SumTotals(CategoryTotals(interval_days, FirstDate, LastDate))
          <= SumClosed(intervals)
    /\ \A i \in OpenIntervals(intervals) : RowsOf(interval_days, i) = <<>>

\* C38: every interval_days row references an existing closed interval and
\* carries that interval's session_id and category (so no slice belongs to
\* an open interval or to an interval of another session), and a closed
\* interval is sliced at most once: its rows come from the call that closed
\* it and their dates strictly ascend.
C38_SlicesBelongToClosedIntervals ==
    /\ \A k \in DOMAIN interval_days :
          LET id == interval_days[k].interval_id
          IN /\ id \in DOMAIN intervals
             /\ intervals[id].end_utc # NULL
             /\ intervals[id].session_id = interval_days[k].session_id
             /\ intervals[id].category = interval_days[k].category
    /\ \A i \in DOMAIN intervals :
          /\ \A j, k \in DOMAIN RowsOf(interval_days, i) :
                j < k => RowsOf(interval_days, i)[j].date_local
                           < RowsOf(interval_days, i)[k].date_local
          /\ (i \in DOMAIN prev.intervals /\ prev.intervals[i].end_utc # NULL) =>
                RowsOf(interval_days, i) = RowsOf(prev.interval_days, i)

\* a call closes and slices its session's interval over midnight while the
\* store holds an open interval of another session, left by an earlier
\* process
C38_Witness ==
    \E i, j \in DOMAIN intervals :
        /\ ClosedByLast(i)
        /\ Len(RowsOf(interval_days, i)) = 2
        /\ intervals[j].end_utc = NULL
        /\ intervals[j].session_id # intervals[i].session_id

\* the instant is the beginning of its local day
BeginsItsDay(t, tz) == t = TimeUnix(DayBegins(LocalDay(t, tz), tz))

\* the seconds a local day has
SecondsOfDay(day, tz) == DayBegins(day + 1, tz) - DayBegins(day, tz)

\* C39: an interval that ends exactly at a local midnight has no slice for
\* the day beginning there; an interval that starts exactly at a local
\* midnight has no slice for an earlier day; and a slice labelled D holds no
\* more seconds than the interval spends in local day D, hence no more than
\* that day has.
C39_MidnightBoundaries ==
    \A i \in DOMAIN intervals :
        ClosedByLast(i) =>
            LET rows == RowsOf(interval_days, i)
                startUTC == prev.IntervalStart
                endUTC == last.now
            IN /\ BeginsItsDay(endUTC, loc) =>
                     \A k \in DOMAIN rows :
                         rows[k].date_local # LocalDay(endUTC, loc)
               /\ BeginsItsDay(startUTC, loc) =>
                     \A k \in DOMAIN rows :
                         rows[k].date_local >= LocalDay(startUTC, loc)
               /\ \A k \in DOMAIN rows :
                     /\ rows[k].duration_seconds
                           <= SecondsInDay(startUTC, endUTC, rows[k].date_local, loc)
                     /\ rows[k].duration_seconds
                           <= SecondsOfDay(rows[k].date_local, loc)

\* an interval from an hour before a local midnight to the next local
\* midnight, over a whole local day of 25 hours, is closed with two slices
C39_Witness ==
    /\ loc = HavanaFall
    /\ prev.IntervalStart = At(1, 3, 0) /\ last.now = At(2, 5, 0)
    /\ BeginsItsDay(last.now, loc)
    /\ \E i \in DOMAIN intervals :
          /\ ClosedByLast(i)
          /\ SlicesOf(i) = <<[date_local |-> 0, duration_seconds |-> 3600],
                              [date_local |-> 1, duration_seconds |-> 25 * 3600]>>

\* an interval that starts exactly at a local midnight and ends at the next
C39_WitnessFromMidnight ==
    /\ loc = PacificSpring
    /\ prev.IntervalStart = At(1, 8, 0) /\ last.now = At(2, 7, 0)
    /\ BeginsItsDay(prev.IntervalStart, loc) /\ BeginsItsDay(last.now, loc)
    /\ \E i \in DOMAIN intervals :
          /\ ClosedByLast(i)
          /\ SlicesOf(i) = <<[date_local |-> 1, duration_seconds |-> 23 * 3600]>>

\* an interval ending at the change of offset that begins a local day whose
\* midnight is skipped: the close never returns and stores no slice
C39_WitnessSkippedMidnight ==
    /\ loc = HavanaSpring
    /\ last.err = NoReturn
    /\ BeginsItsDay(last.now, loc)
    /\ \E i \in DOMAIN intervals :
          ClosedByLast(i) /\ RowsOf(interval_days, i) = <<>>

====
